---- MODULE Spec2Model ----
(***************************************************************************)
(* The reactivity engine of the repository: Observer, observe and         *)
(* defineReactive (src/core/observer/index.js), Dep (observer/dep.js), the *)
(* array method interceptor (observer/array.js), the computed getter       *)
(* (instance/state.js), and the Watcher and the scheduler the sources call *)
(* but do not contain (modelled from the specification).                   *)
(*                                                                         *)
(* The program is single-threaded: every operator below is a pure          *)
(* function from a program state S (a record with one field per variable)  *)
(* to the program state after the call, composed exactly as the calls nest *)
(* in the source.  An action applies one entry point to the current state. *)
(***************************************************************************)
EXTENDS Integers, Sequences, FiniteSets, TLC

VARIABLES
  heap,          \* object id -> the object: own keys, accessors, elements, __ob__
  obs,           \* Observer instances, in creation order
  subs,          \* Dep id -> Dep.subs
  uid,           \* dep.js `uid`: the id of the next Dep
  shouldObserve, \* observer/index.js `shouldObserve`
  ws,            \* watcher name -> Watcher instance
  wuid,          \* watcher.js `uid`: the id of the last Watcher
  target,        \* Dep.target
  targetStack,   \* dep.js `targetStack`
  queue,         \* scheduler: the buffer of queued watchers
  has,           \* scheduler: the dedup set
  waiting,       \* scheduler: a flush is scheduled or running
  flushing,      \* scheduler: the flush callback is running
  index,         \* scheduler: position of the flush in the buffer
  circular,      \* scheduler: per-watcher re-queue counter
  async,         \* config.async
  thrown,        \* the exception in flight; after a step, the one it left uncaught
  running,       \* the deferred flush callback is on the stack
  inBrowser,     \* util/env: inBrowser || inWeex, with a console
  errorHandler,  \* config.errorHandler
  errorCaptured, \* $options.errorCaptured of the ancestors, nearest parent first
  propsOptions,  \* vm.$options.props: prop key -> its default and validator
  installedPlugins, \* Vue._installedPlugins
  vms,           \* component instances: flags, $parent, $children, _data, $options
  ka,            \* the keep-alive instance: cache, keys, _vnode, props
  fa,            \* an async component factory, its closure, promise and timers
  el,            \* an element with a transition: _enterCb, _leaveCb, pending frames
  hist           \* history of the last operation and of the current flush

vars == <<heap, obs, subs, uid, shouldObserve, ws, wuid, target, targetStack,
          queue, has, waiting, flushing, index, circular, async, thrown,
          running, inBrowser, errorHandler, errorCaptured, propsOptions,
          installedPlugins, vms, ka, fa, el, hist>>

(***************************************************************************)
(* Bounds of the model.                                                    *)
(***************************************************************************)
MaxVal == 3            \* primitive values are 0..MaxVal
MAX_UPDATE_COUNT == 2  \* the loop-detection threshold, scaled down
MaxLen == 3            \* an array grows up to MaxLen elements
MaxRoots == 2          \* observe(value, true) is repeated up to vmCount = MaxRoots
MaxDeps == 7           \* set() is called on an object while fewer than MaxDeps Deps exist
MaxWrap == 1           \* an accessor is wrapped by at most MaxWrap others
MaxVms == 2            \* component instances
MaxStack == 3          \* nested $destroy calls that fit on the call stack

(***************************************************************************)
(* Values.  A primitive is 0..MaxVal or NaN, `undefined` is Absent, a      *)
(* reference to heap object o is Ref(o).                                   *)
(***************************************************************************)
Absent == 0 - 1
NaN == 0 - 2
Ref(o) == 100 + o
Obj(v) == v - 100
isObject(v) == v >= 100
Prims == 0..MaxVal

Objs == 1..6
Vms == 1..MaxVms
ROOT == 1
CHILD == 2
Keys == {"a", "b", "flag", "p", "list", "x", "valueOf"}
KeyOrder == <<"a", "b", "flag", "p", "list", "x", "valueOf">>

\* key in Object.prototype, for the keys of the model
ObjectPrototype == {"valueOf"}

NoDep == 0 - 1
NoOb == 0
NoW == "none"
NoErr == "none"

\* the lifecycle hooks of the model
HookNames == {"beforeCreate", "created", "beforeDestroy", "destroyed",
              "activated", "deactivated"}

\* vm.$options of an instance without options
NoOptions == [data |-> "none", hooks |-> [h \in HookNames |-> <<>>]]

\* a component instance after initLifecycle (inactive: "null", "true", "false");
\* history: how often each hook fired, the watcher teardowns that found the
\* watcher active, the decrements of a root count
NoVm ==
  [created |-> FALSE, options |-> NoOptions, data |-> Absent,
   parent |-> 0, children |-> <<>>, watcher |-> NoW,
   inactive |-> "null", directInactive |-> FALSE,
   isBeingDestroyed |-> FALSE, isDestroyed |-> FALSE,
   fired |-> [h \in HookNames |-> 0], torn |-> 0, decremented |-> 0,
   last |-> "none"]

\* a vnode key or a prop value: undefined, a number or a string
NoKey == [t |-> "undefined", n |-> 0, s |-> ""]

\* a component vnode: its component, key, componentInstance (0: undefined)
\* and data.keepAlive; NoVnode is undefined, NullEntry is null
NoVnode ==
  [comp |-> "undefined", key |-> NoKey, componentInstance |-> 0,
   keepAlive |-> FALSE]

NullEntry == [NoVnode EXCEPT !.comp = "null"]

\* an include / exclude pattern: undefined or an array of names
NoPattern == [t |-> "undefined", names |-> {}]

\* the property names the cache object can get
CacheNames == {"1", "1::a", "2::b"}

\* the keep-alive instance after created(): cache (with the order its
\* properties were added in), keys, _vnode, the props, the component
\* instances made for its children; and the history of the last operation
NoKa ==
  [cache |-> [k \in CacheNames |-> NoVnode], order |-> <<>>, keys |-> <<>>,
   vnode |-> NoVnode, include |-> NoPattern, exclude |-> NoPattern,
   max |-> NoKey, insts |-> <<>>, destroyed |-> FALSE,
   rendered |-> NoVnode, stored |-> "", dropped |-> {}, evicted |-> <<>>,
   hit |-> 0, recent |-> <<>>]

\* the instances that render the async component
MaxOwners == 2

Owners == 1..MaxOwners

\* what the factory function does: whether it calls resolve before it
\* returns, and what it returns (undefined, a promise, or an object with a
\* component promise and the options error, loading, delay, timeout)
NoReturn ==
  [t |-> "undefined", error |-> FALSE, loading |-> FALSE, delay |-> 200,
   timeout |-> FALSE]

\* an async component factory never used: the fields of the function object
\* (error, errorComp, resolved, loading, loadingComp, owners), the closure
\* of its first resolveAsyncComponent call (sync, timerLoading,
\* timerTimeout, the `called` flags of once), the promise, the instances,
\* and the history of the last operation
NoFactory ==
  [resolvesSync |-> FALSE, returns |-> NoReturn,
   error |-> FALSE, errorComp |-> FALSE, resolved |-> FALSE,
   loading |-> FALSE, loadingComp |-> FALSE,
   ownersDef |-> FALSE, owners |-> <<>>,
   sync |-> TRUE, timerLoading |-> "null", timerTimeout |-> "null",
   resolveCalled |-> FALSE, rejectCalled |-> FALSE,
   promise |-> "none", hooked |-> {}, destroyed |-> {},
   invoked |-> 0, resolves |-> 0, rejects |-> 0, forced |-> <<>>,
   ret |-> "undefined"]

\* a callback made by once(...) in enter or leave: whether it exists, the
\* `called` flag of once, cb.cancelled; history: how often its body ran and
\* the branches it took
NoCb == [exists |-> FALSE, called |-> FALSE, cancelled |-> FALSE, runs |-> 0,
         outcomes |-> <<>>]

\* an element with a <transition>: el._enterCb and el._leaveCb ("undefined",
\* "set" or "null"), the callbacks, the pending nextFrame callbacks, the
\* armed end-of-transition timers, the delayed performLeave; the transition
\* data (css, a hook that takes `done`, delayLeave, v-show, the hook that
\* throws); history: the hooks and rm calls of the last operation
NoEl ==
  [enterCb |-> "undefined", leaveCb |-> "undefined",
   enter |-> NoCb, leave |-> NoCb,
   frames |-> {}, timers |-> {}, delayed |-> FALSE,
   css |-> TRUE, control |-> FALSE, delayLeave |-> FALSE, show |-> FALSE,
   throws |-> "none", thrown |-> FALSE, out |-> <<>>]

\* the keys of vm.$options.props, in the order of the for-in loop
PropKeys == <<"p", "x">>
PropKeySet == {"p", "x"}
NoPropOption == [default |-> "none", validator |-> "none"]

Progs == {"render", "double", "sum", "loop", "lister", "reader", "attrs", "switch",
          "view", "faulty", "mounting"}

(***************************************************************************)
(* The program state as one record, and its assignment to the variables.   *)
(***************************************************************************)
Cur ==
  [heap |-> heap, obs |-> obs, subs |-> subs, uid |-> uid,
   shouldObserve |-> shouldObserve, ws |-> ws, wuid |-> wuid,
   target |-> target, targetStack |-> targetStack, queue |-> queue,
   has |-> has, waiting |-> waiting, flushing |-> flushing, index |-> index,
   circular |-> circular, async |-> async, thrown |-> thrown,
   running |-> running, inBrowser |-> inBrowser, errorHandler |-> errorHandler,
   errorCaptured |-> errorCaptured, propsOptions |-> propsOptions,
   installedPlugins |-> installedPlugins, vms |-> vms, ka |-> ka,
   fa |-> fa, el |-> el, hist |-> hist]

Assign(S) ==
  /\ heap' = S.heap /\ obs' = S.obs /\ subs' = S.subs /\ uid' = S.uid
  /\ shouldObserve' = S.shouldObserve /\ ws' = S.ws /\ wuid' = S.wuid
  /\ target' = S.target /\ targetStack' = S.targetStack /\ queue' = S.queue
  /\ has' = S.has /\ waiting' = S.waiting /\ flushing' = S.flushing
  /\ index' = S.index /\ circular' = S.circular /\ async' = S.async
  /\ thrown' = S.thrown /\ running' = S.running /\ inBrowser' = S.inBrowser
  /\ errorHandler' = S.errorHandler /\ errorCaptured' = S.errorCaptured
  /\ propsOptions' = S.propsOptions /\ installedPlugins' = S.installedPlugins
  /\ vms' = S.vms /\ ka' = S.ka /\ fa' = S.fa /\ el' = S.el
  /\ hist' = S.hist

InitIs(S) ==
  /\ heap = S.heap /\ obs = S.obs /\ subs = S.subs /\ uid = S.uid
  /\ shouldObserve = S.shouldObserve /\ ws = S.ws /\ wuid = S.wuid
  /\ target = S.target /\ targetStack = S.targetStack /\ queue = S.queue
  /\ has = S.has /\ waiting = S.waiting /\ flushing = S.flushing
  /\ index = S.index /\ circular = S.circular /\ async = S.async
  /\ thrown = S.thrown /\ running = S.running /\ inBrowser = S.inBrowser
  /\ errorHandler = S.errorHandler /\ errorCaptured = S.errorCaptured
  /\ propsOptions = S.propsOptions /\ installedPlugins = S.installedPlugins
  /\ vms = S.vms /\ ka = S.ka /\ fa = S.fa /\ el = S.el
  /\ hist = S.hist

(***************************************************************************)
(* Sequence helpers.                                                       *)
(***************************************************************************)
Range(s) == {s[i] : i \in 1..Len(s)}

Count(s, x) == Cardinality({i \in 1..Len(s) : s[i] = x})

\* shared/util remove(arr, item): splice out the first occurrence
remove(s, x) ==
  IF x \notin Range(s) THEN s
  ELSE LET i == CHOOSE j \in 1..Len(s) : s[j] = x /\ \A k \in 1..(j - 1) : s[k] # x
       IN SubSeq(s, 1, i - 1) \o SubSeq(s, i + 1, Len(s))

Reverse(s) == [i \in 1..Len(s) |-> s[Len(s) + 1 - i]]

(***************************************************************************)
(* Heap access.                                                            *)
(***************************************************************************)
isArray(S, v) == isObject(v) /\ S.heap[Obj(v)].kind = "array"

isPlainObject(S, v) == isObject(v) /\ S.heap[Obj(v)].kind = "object"

hasOwn(S, o, k) == S.heap[o].fields[k] # Absent

\* Object.keys(obj): the own enumerable keys, in the order of KeyOrder
ObjectKeys(S, o) == SelectSeq(KeyOrder, LAMBDA k : hasOwn(S, o, k))

\* value.__ob__ (NoOb when the value is a primitive or not observed)
ObOf(S, v) == IF isObject(v) THEN S.heap[Obj(v)].ob ELSE NoOb

RECURSIVE observe(_, _, _), Observer(_, _), walk(_, _, _), observeArray(_, _),
          init(_, _), callHook(_, _, _, _), vm_destroy(_, _, _),
          invokeHandlers(_, _, _, _, _),
          defineReactive(_, _, _, _, _, _, _),
          notify(_, _), notifyLoop(_, _, _, _), update(_, _), queueWatcher(_, _),
          flushLoop(_), flushIter(_), run(_, _), get(_, _),
          Evaluator(_, _), Cb(_, _, _, _), reactiveSetter(_, _, _, _, _),
          reactiveGetter(_, _, _, _), GetProp(_, _, _),
          evaluate(_, _), computedGetter(_, _), dependArray(_, _, _),
          EvalLister(_, _, _, _), SetProp(_, _, _, _), setterObserve(_, _, _, _, _),
          flushSchedulerQueue(_)

(***************************************************************************)
(* Dep (observer/dep.js).                                                  *)
(***************************************************************************)
\* new Dep(): this.id = uid++; this.subs = []
newDep(S) == [S EXCEPT !.subs = S.subs @@ (S.uid :> <<>>), !.uid = S.uid + 1]

addSub(S, d, w) == [S EXCEPT !.subs[d] = Append(@, w)]

removeSubNoop(S, d, w) == S

removeSubHead(S, d, w) == [S EXCEPT !.subs[d] = IF Len(@) = 0 THEN @ ELSE Tail(@)]

removeSub(S, d, w) == [S EXCEPT !.subs[d] = remove(@, w)]

\* Watcher.addDep(dep): record the dep for this run, subscribe if it is new
addDep(S, w, d) ==
  IF d \in S.ws[w].newDeps THEN S
  ELSE IF d \in S.ws[w].deps THEN [S EXCEPT !.ws[w].newDeps = @ \cup {d}]
  ELSE addSub([S EXCEPT !.ws[w].newDeps = @ \cup {d}], d, w)

dependDirect(S, d) == IF S.target # NoW THEN addSub(S, d, S.target) ELSE S

\* history: the active evaluator and the target stack at the entry and the
\* exit of an evaluation and at every Dep.depend() under an active evaluator
Traced(S, ev, w, d) ==
  [S EXCEPT !.hist.trace = Append(@, [ev |-> ev, w |-> w, d |-> d,
                                      target |-> S.target,
                                      stack |-> S.targetStack])]

\* depend(): Dep.target.addDep(this)
depend(S, d) ==
  IF S.target # NoW THEN addDep(Traced(S, "depend", S.target, d), S.target, d)
  ELSE S

pushTarget(S, w) ==
  [S EXCEPT !.targetStack = Append(@, w), !.target = w]

popTargetClear(S) ==
  [S EXCEPT !.targetStack = SubSeq(@, 1, Len(@) - 1), !.target = NoW]

popTarget(S) ==
  LET st == SubSeq(S.targetStack, 1, Len(S.targetStack) - 1)
  IN [S EXCEPT !.targetStack = st,
               !.target = IF Len(st) = 0 THEN NoW ELSE st[Len(st)]]

\* subs.sort((a, b) => a.id - b.id): insertion of each watcher by id
SortById(S, s) ==
  LET ids == {S.ws[s[i]].id : i \in 1..Len(s)}
      RECURSIVE build(_, _)
      build(rest, acc) ==
        IF rest = {} THEN acc
        ELSE LET m == CHOOSE x \in rest : \A y \in rest : x <= y
             IN build(rest \ {m},
                      acc \o SelectSeq(s, LAMBDA w : S.ws[w].id = m))
  IN build(ids, <<>>)

\* history: the n-th notify() of the operation calls w.update(); the call is
\* also recorded when a flush is running
Called(S, n, w) ==
  [S EXCEPT !.hist.calls = Append(@, <<n, w>>),
            !.hist.reupd = IF S.flushing THEN @ \cup {w} ELSE @]

\* history: notify() starts on Dep d, whose subscribers are S.subs[d]
Notifying(S, d) ==
  [S EXCEPT !.hist.notified = Append(@, d), !.hist.snaps = Append(@, S.subs[d])]

\* for (i = 0; i < l; i++) subs[i].update(), in the n-th notify() of the
\* operation
notifyLoop(S, n, snapshot, i) ==
  IF i > Len(snapshot) \/ S.thrown # NoErr THEN S
  ELSE notifyLoop(update(Called(S, n, snapshot[i]), snapshot[i]), n, snapshot, i + 1)

notifyFirstOnly(S, d) ==
  IF Len(S.subs[d]) = 0 THEN Notifying(S, d)
  ELSE update(Called(Notifying(S, d), Len(S.hist.notified) + 1, S.subs[d][1]),
              S.subs[d][1])

notifyLive(S, d) ==
  LET RECURSIVE live(_, _)
      live(T, i) ==
        IF i > Len(T.subs[d]) THEN T
        ELSE live(update(Called(T, Len(S.hist.notified) + 1, T.subs[d][i]),
                         T.subs[d][i]),
                  i + 1)
  IN live(Notifying(S, d), 1)

\* notify(): update() on a copy of subs, sorted by id when config.async is off
notify(S, d) ==
  notifyLoop(Notifying(S, d), Len(S.hist.notified) + 1,
             IF ~S.async THEN SortById(S, S.subs[d]) ELSE S.subs[d], 1)

(***************************************************************************)
(* Observer, observe, defineReactive (observer/index.js).  Operators that  *)
(* return a value return the record [S |-> state after, v |-> the value].  *)
(***************************************************************************)
toggleObserving(S, value) == [S EXCEPT !.shouldObserve = value]

\* observeArray(items): observe(items[i]) for each i
observeArray(S, items) ==
  IF Len(items) = 0 THEN S
  ELSE observeArray(observe(S, Head(items), FALSE).S, Tail(items))

\* walk(obj): defineReactive(obj, keys[i]) for each own enumerable key
walk(S, o, keys) ==
  IF Len(keys) = 0 THEN S
  ELSE walk(defineReactive(S, o, Head(keys), Absent, FALSE, FALSE, FALSE), o, Tail(keys))

\* new Observer(value)
Observer(S, o) ==
  LET b == Len(S.obs) + 1
      members(S2) ==
        IF S2.heap[o].kind = "array"
        THEN observeArray([S2 EXCEPT !.heap[o].patched = TRUE], S2.heap[o].elems)
        ELSE walk(S2, o, ObjectKeys(S2, o))
  IN [S |-> members([newDep(S) EXCEPT
                       !.obs = Append(@, [value |-> o, dep |-> S.uid, vmCount |-> 0]),
                       !.heap[o].ob = b]),
      v |-> b]

observeNoGuard(S, value, asRootData) ==
  IF ~isObject(value) THEN [S |-> S, v |-> NoOb]
  ELSE LET o == Obj(value)
           root(r) ==
             IF asRootData /\ r.v # NoOb
             THEN [S |-> [r.S EXCEPT !.obs[r.v].vmCount = @ + 1], v |-> r.v]
             ELSE r
       IN root(IF S.shouldObserve /\ S.heap[o].extensible /\ ~S.heap[o].isVue
               THEN Observer(S, o)
               ELSE [S |-> S, v |-> NoOb])

observe(S, value, asRootData) ==
  IF ~isObject(value) THEN [S |-> S, v |-> NoOb]
  ELSE LET o == Obj(value)
           root(r) ==
             IF asRootData /\ r.v # NoOb
             THEN [S |-> [r.S EXCEPT !.obs[r.v].vmCount = @ + 1], v |-> r.v]
             ELSE r
       IN root(IF S.heap[o].ob # NoOb
               THEN [S |-> S, v |-> S.heap[o].ob]
               ELSE IF S.shouldObserve /\ S.heap[o].extensible /\ ~S.heap[o].isVue
               THEN Observer(S, o)
               ELSE [S |-> S, v |-> NoOb])

\* obj[key]: through the accessor when one is installed
GetProp(S, o, k) ==
  IF S.heap[o].dep[k] # NoDep
  THEN reactiveGetter(S, o, k, Len(S.heap[o].wrapped[k]) + 1)
  ELSE [S |-> S, v |-> S.heap[o].fields[k]]

\* defineReactive(obj, key, val, customSetter, shallow); threeArgs is
\* arguments.length > 2.  An own property is configurable; it is a data
\* property, an accessor the data was written with (a getter returning the
\* field, with a setter storing into it or without setter: noSetter), or an
\* accessor installed by an earlier defineReactive.  The new accessor wraps
\* the accessor it finds (getter = property.get, setter = property.set).
defineReactive(S, o, k, val, threeArgs, customSetter, shallow) ==
  LET d == S.uid
      reactive == S.heap[o].dep[k] # NoDep
      getter == reactive \/ S.heap[o].noSetter[k]
      setter == ~S.heap[o].noSetter[k]
      install(r, v) ==
        [r.S EXCEPT !.heap[o].fields[k] = IF getter THEN @ ELSE v,
                    !.heap[o].wrapped[k] =
                       IF reactive
                       THEN Append(@, [dep |-> r.S.heap[o].dep[k],
                                       childOb |-> r.S.heap[o].childOb[k],
                                       shallow |-> r.S.heap[o].shallow[k],
                                       customSetter |->
                                         r.S.heap[o].customSetter[k]])
                       ELSE @,
                    !.heap[o].dep[k] = d,
                    !.heap[o].childOb[k] = r.v,
                    !.heap[o].shallow[k] = shallow,
                    !.heap[o].customSetter[k] = customSetter]
      child(g) ==
        install(IF shallow THEN [S |-> g.S, v |-> NoOb] ELSE observe(g.S, g.v, FALSE),
                g.v)
  IN child(IF threeArgs THEN [S |-> newDep(S), v |-> val]
           ELSE IF ~getter \/ setter THEN GetProp(newDep(S), o, k)
           ELSE [S |-> newDep(S), v |-> Absent])

dependArrayFlat(S, a, i) ==
  IF i > Len(S.heap[a].elems) THEN S
  ELSE LET e == S.heap[a].elems[i]
       IN dependArray(IF ObOf(S, e) # NoOb
                      THEN depend(S, S.obs[ObOf(S, e)].dep)
                      ELSE S,
                      a, i + 1)

\* dependArray(value): from element i on
dependArray(S, a, i) ==
  IF i > Len(S.heap[a].elems) THEN S
  ELSE LET e == S.heap[a].elems[i]
           nested(S1) == IF isArray(S1, e) THEN dependArray(S1, Obj(e), 1) ELSE S1
       IN dependArray(nested(IF ObOf(S, e) # NoOb
                             THEN depend(S, S.obs[ObOf(S, e)].dep)
                             ELSE S),
                      a, i + 1)

\* the closure of the n-th accessor installed on obj[key]: the outermost one
\* is kept in dep, childOb and shallow, the ones it wraps in wrapped
Closure(S, o, k, n) ==
  IF n > Len(S.heap[o].wrapped[k])
  THEN [dep |-> S.heap[o].dep[k], childOb |-> S.heap[o].childOb[k],
        shallow |-> S.heap[o].shallow[k],
        customSetter |-> S.heap[o].customSetter[k]]
  ELSE S.heap[o].wrapped[k][n]

\* the getter of the n-th accessor: value = getter ? getter.call(obj) : val
reactiveGetter(S, o, k, n) ==
  LET collect(g) ==
        LET cob == Closure(g.S, o, k, n).childOb
            elements(Sb) ==
              IF isArray(Sb, g.v) THEN dependArray(Sb, Obj(g.v), 1) ELSE Sb
            child(Sa) ==
              IF cob = NoOb THEN Sa ELSE elements(depend(Sa, Sa.obs[cob].dep))
        IN [S |-> IF g.S.target = NoW THEN g.S
                  ELSE child(depend(g.S, Closure(g.S, o, k, n).dep)),
            v |-> g.v]
  IN collect(IF n > 1 THEN reactiveGetter(S, o, k, n - 1)
             ELSE [S |-> S, v |-> S.heap[o].fields[k]])

\* newVal === value
StrictEquals(x, y) == x = y /\ x # NaN

\* childOb = r.v in the closure of the n-th accessor
setChildOb(r, o, k, n) ==
  IF n > Len(r.S.heap[o].wrapped[k])
  THEN [r.S EXCEPT !.heap[o].childOb[k] = r.v]
  ELSE [r.S EXCEPT !.heap[o].wrapped[k][n].childOb = r.v]

\* the end of the setter: r is the result of `!shallow && observe(newVal)`;
\* childOb = r.v; dep.notify()
setterNotify(r, o, k, n) ==
  notify(setChildOb(r, o, k, n), Closure(r.S, o, k, n).dep)

\* the setter once the value is stored in S1
setterObserve(S1, o, k, n, newVal) ==
  setterNotify(IF Closure(S1, o, k, n).shallow THEN [S |-> S1, v |-> NoOb]
               ELSE observe(S1, newVal, FALSE),
               o, k, n)

customSetNever(S, o, k, n) == S

\* if (customSetter) customSetter()
customSet(S, o, k, n) ==
  IF Closure(S, o, k, n).customSetter
  THEN [S EXCEPT !.hist.custom = Append(@, <<o, k>>)]
  ELSE S

\* the setter after customSetter(): nothing when the accessor found had no
\* setter, else the value is stored, observed and the Dep notified
setterStore(S1, o, k, n, newVal) ==
  IF n = 1 /\ S1.heap[o].noSetter[k] THEN S1
  ELSE setterObserve(IF n > 1 THEN reactiveSetter(S1, o, k, n - 1, newVal)
                     ELSE [S1 EXCEPT !.heap[o].fields[k] = newVal],
                     o, k, n, newVal)

reactiveSetterNoNaN(S, o, k, n, newVal) ==
  LET compare(g) ==
        IF StrictEquals(newVal, g.v)
        THEN g.S
        ELSE setterStore(customSet(g.S, o, k, n), o, k, n, newVal)
  IN compare(IF n > 1 THEN reactiveGetter(S, o, k, n - 1)
             ELSE [S |-> S, v |-> S.heap[o].fields[k]])

\* the setter of the n-th accessor, from the comparison on: g is the state
\* and the value after `value = getter ? getter.call(obj) : val`
setterCompare(g, o, k, n, newVal) ==
  IF \/ StrictEquals(newVal, g.v)
     \/ ~StrictEquals(newVal, newVal) /\ ~StrictEquals(g.v, g.v)
  THEN g.S
  ELSE setterStore(customSet(g.S, o, k, n), o, k, n, newVal)

\* the setter of the n-th accessor
reactiveSetter(S, o, k, n, newVal) ==
  setterCompare(IF n > 1 THEN reactiveGetter(S, o, k, n - 1)
                ELSE [S |-> S, v |-> S.heap[o].fields[k]],
                o, k, n, newVal)

\* obj[key] = val: through the accessor when one is installed (the write to
\* an accessor without setter does nothing)
SetProp(S, o, k, val) ==
  IF S.heap[o].dep[k] # NoDep
  THEN reactiveSetter(S, o, k, Len(S.heap[o].wrapped[k]) + 1, val)
  ELSE IF S.heap[o].noSetter[k] THEN S
  ELSE [S EXCEPT !.heap[o].fields[k] = val]

(***************************************************************************)
(* Error reporting (util/error.js).  An exception in flight is S.thrown:   *)
(* an operator that finds it set after a call returns at once.             *)
(***************************************************************************)
\* history: a hook or handler is called with err, or err is logged or thrown
Errored(S, what, err, a, i) ==
  [S EXCEPT !.hist.errs = Append(@, [what |-> what, err |-> err, at |-> a, i |-> i])]

\* logError: console.error(err) where there is a console, else throw err
logError(S, err) ==
  IF S.inBrowser THEN Errored(S, "log", err, 0, 0)
  ELSE [Errored(S, "throw", err, 0, 0) EXCEPT !.thrown = err]

\* globalHandleError: config.errorHandler when set; an error it throws is
\* logged unless it is err itself, and then err is logged
globalHandleError(S, err) ==
  LET called == Errored(S, "handler", err, 0, 0)
      logged(S1) == IF S1.thrown # NoErr THEN S1 ELSE logError(S1, err)
  IN CASE S.errorHandler = "none" -> logError(S, err)
       [] S.errorHandler = "returns" -> called
       [] S.errorHandler = "rethrows" -> logError(called, err)
       [] S.errorHandler = "throws" -> logged(logError(called, "handler"))

RECURSIVE hooksLoop(_, _, _, _), hookThrew(_, _, _, _)
\* the errorCaptured hooks of the ancestors, from hook i of ancestor a on,
\* then globalHandleError(err)
hooksLoop(S, err, a, i) ==
  IF a > Len(S.errorCaptured) THEN globalHandleError(S, err)
  ELSE IF i > Len(S.errorCaptured[a]) THEN hooksLoop(S, err, a + 1, 1)
  ELSE CASE S.errorCaptured[a][i] = "capture" -> Errored(S, "hook", err, a, i)
         [] S.errorCaptured[a][i] = "pass" ->
              hooksLoop(Errored(S, "hook", err, a, i), err, a, i + 1)
         [] S.errorCaptured[a][i] = "throws" ->
              hookThrew(globalHandleError(Errored(S, "hook", err, a, i), "hook"),
                        err, a, i)

\* catch (e) { globalHandleError(e, cur, 'errorCaptured hook') }
hookThrew(S, err, a, i) ==
  IF S.thrown # NoErr THEN S ELSE hooksLoop(S, err, a, i + 1)

\* handleError(err, vm, info): Dep tracking is off while the handlers run
\* history: Dep.target and the target stack when fn was called (in S0) and
\* when it returned or raised (in S1)
Framed(S0, S1, fn) ==
  [S1 EXCEPT !.hist.frames =
               Append(@, [fn |-> fn, target0 |-> S0.target,
                          stack0 |-> S0.targetStack, target |-> S1.target,
                          stack |-> S1.targetStack,
                          raised |-> S1.thrown # NoErr])]

handleError(S, err) ==
  Framed(S, popTarget(hooksLoop(pushTarget(S, NoW), err, 1, 1)), "handleError")

(***************************************************************************)
(* Watcher (observer/watcher.js is not among the sources: modelled from    *)
(* the specification, section 4.4).                                        *)
(***************************************************************************)
NoWatcher ==
  [id |-> 0, lazy |-> FALSE, user |-> FALSE, sync |-> FALSE, dirty |-> FALSE,
   active |-> FALSE, value |-> Absent, deps |-> {}, newDeps |-> {}]

\* reconcile: unsubscribe from the deps of the previous run not touched by this one
cleanupDeps(S, w) ==
  LET RECURSIVE each(_, _)
      each(T, ds) ==
        IF ds = {} THEN T
        ELSE LET d == CHOOSE x \in ds : \A y \in ds : x <= y
             IN each(removeSub(T, d, w), ds \ {d})
  IN [each(S, S.ws[w].deps \ S.ws[w].newDeps) EXCEPT
        !.ws[w].deps = S.ws[w].newDeps,
        !.ws[w].newDeps = {}]

\* get(): push self as active, run the function, pop, reconcile
\* an exception of the function is caught and forwarded to handleError: the
\* evaluation is abandoned (ok is FALSE)
get(S, w) ==
  LET finally(S1) == cleanupDeps(Traced(popTarget(S1), "leave", w, NoDep), w)
      caught(r) ==
        IF r.S.thrown = NoErr THEN [S |-> finally(r.S), v |-> r.v, ok |-> TRUE]
        ELSE [S |-> finally(handleError([r.S EXCEPT !.thrown = NoErr], r.S.thrown)),
              v |-> Absent, ok |-> FALSE]
  IN caught(Evaluator(Traced(pushTarget([S EXCEPT !.hist.ran = Append(@, w)], w),
                             "enter", w, NoDep), w))

\* the end of run(): r is the result of get(); when the value differs from the
\* old one, store it and call the callback
\* an exception of the callback of a user watcher goes to handleError
cbCaught(S1, w) ==
  IF S1.thrown # NoErr /\ S1.ws[w].user
  THEN handleError([S1 EXCEPT !.thrown = NoErr], S1.thrown)
  ELSE S1

runChanged(r, w, old) ==
  IF ~r.ok THEN r.S
  ELSE IF r.v # old
  THEN cbCaught(Cb([r.S EXCEPT !.ws[w].value = r.v, !.hist.cbs = Append(@, w)],
                   w, r.v, old), w)
  ELSE r.S

\* run(): re-evaluate and, when the value changed, call the callback
run(S, w) ==
  IF ~S.ws[w].active THEN S
  ELSE runChanged(get(S, w), w, S.ws[w].value)

\* teardown(): unsubscribe from every Dep held and mark the watcher, once
teardown(S, w) ==
  LET RECURSIVE each(_, _)
      each(T, ds) ==
        IF ds = {} THEN T
        ELSE LET d == CHOOSE x \in ds : \A y \in ds : x <= y
             IN each(removeSub(T, d, w), ds \ {d})
  IN IF ~S.ws[w].active THEN S
     ELSE [each(S, S.ws[w].deps) EXCEPT !.ws[w].active = FALSE]

updateInline(S, w) ==
  IF S.ws[w].lazy THEN [S EXCEPT !.ws[w].dirty = TRUE]
  ELSE run(S, w)

\* update(): the notify handler
update(S, w) ==
  IF S.ws[w].lazy THEN [S EXCEPT !.ws[w].dirty = TRUE]
  ELSE IF S.ws[w].sync THEN run(S, w)
  ELSE queueWatcher(S, w)

\* evaluate(): lazy-mode recompute
evaluate(S, w) ==
  LET store(r) == [r.S EXCEPT !.ws[w].value = r.v, !.ws[w].dirty = FALSE]
  IN store(get(S, w))

\* depend(): subscribe the active outer watcher to every dep of this one
wdepend(S, w) ==
  LET RECURSIVE each(_, _)
      each(T, ds) ==
        IF ds = {} THEN T
        ELSE LET d == CHOOSE x \in ds : \A y \in ds : x <= y
             IN each(depend(T, d), ds \ {d})
  IN each(S, S.ws[w].deps)

\* new Watcher(vm, expOrFn, cb, options)
Watcher(S, w, lazy, user, sync) ==
  LET store(r) == [r.S EXCEPT !.ws[w].value = r.v]
      made(S1) == IF lazy THEN S1 ELSE store(get(S1, w))
  IN made([S EXCEPT !.wuid = @ + 1,
                    !.ws[w] = [NoWatcher EXCEPT !.id = S.wuid + 1,
                                                !.lazy = lazy, !.user = user,
                                                !.sync = sync, !.dirty = lazy,
                                                !.active = TRUE]])

(***************************************************************************)
(* Computed property getter (instance/state.js createComputedGetter).      *)
(***************************************************************************)
computedGetterNoCache(S, w) ==
  LET ret(S2) == [S |-> S2, v |-> S2.ws[w].value]
      outer(S1) == ret(IF S1.target # NoW THEN wdepend(S1, w) ELSE S1)
  IN outer(evaluate(S, w))

computedGetterNoDepend(S, w) ==
  IF S.ws[w].id = 0 THEN [S |-> S, v |-> Absent]
  ELSE LET ret(S2) == [S |-> S2, v |-> S2.ws[w].value]
       IN ret(IF S.ws[w].dirty THEN evaluate(S, w) ELSE S)

computedGetter(S, w) ==
  IF S.ws[w].id = 0 THEN [S |-> S, v |-> Absent]
  ELSE LET ret(S2) == [S |-> S2, v |-> S2.ws[w].value]
           outer(S1) == ret(IF S1.target # NoW THEN wdepend(S1, w) ELSE S1)
       IN outer(IF S.ws[w].dirty THEN evaluate(S, w) ELSE S)

(***************************************************************************)
(* Scheduler (observer/scheduler.js is not among the sources: modelled     *)
(* from the specification, section 4.5).  index is 1-based here.           *)
(***************************************************************************)
resetSchedulerState(S) ==
  [S EXCEPT !.index = 1, !.queue = <<>>, !.has = {},
            !.circular = [w \in Progs |-> 0],
            !.waiting = FALSE, !.flushing = FALSE]

flushBeginNoSort(S) ==
  [S EXCEPT !.flushing = TRUE, !.index = 1,
            !.hist.log = <<>>, !.hist.diag = {}, !.hist.first = Len(S.queue)]

\* the start of a flush: sort the buffer by ascending creation id
flushBegin(S) ==
  [S EXCEPT !.flushing = TRUE, !.queue = SortById(S, S.queue), !.index = 1,
            !.hist.log = <<>>, !.hist.diag = {}, !.hist.first = Len(S.queue)]

\* one iteration of the flush loop: evaluate queue[index] unless it has been
\* torn down
flushIter(S) ==
  LET w == S.queue[S.index]
      next(S2) == IF S2.thrown # NoErr THEN S2 ELSE [S2 EXCEPT !.index = @ + 1]
  IN next(IF S.ws[w].active
          THEN run([S EXCEPT !.has = @ \ {w}, !.hist.log = Append(@, w)], w)
          ELSE [S EXCEPT !.has = @ \ {w}])

\* the loop bound is re-read on every iteration
flushLoop(S) ==
  IF S.index > Len(S.queue) \/ S.thrown # NoErr THEN S
  ELSE flushLoop(flushIter(S))

\* the end of the flush callback, unless an exception ended it
flushEnd(S) == IF S.thrown # NoErr THEN S ELSE resetSchedulerState(S)

flushSchedulerQueue(S) == flushEnd(flushLoop(flushBegin(S)))

queueWatcherNoDedup(S, w) ==
  [S EXCEPT !.queue = Append(@, w), !.has = @ \cup {w}, !.waiting = TRUE]

queueWatcherNoLimit(S, w) ==
  IF w \in S.has THEN S
  ELSE [S EXCEPT !.queue = Append(@, w), !.has = @ \cup {w}, !.waiting = TRUE]

\* the end of queue(computation): schedule a flush unless one is scheduled;
\* the flush runs at once when config.async is off
schedule(S1) ==
  IF S1.waiting THEN S1
  ELSE IF ~S1.async
  THEN flushSchedulerQueue([S1 EXCEPT !.waiting = TRUE, !.hist.sched = @ + 1])
  ELSE [S1 EXCEPT !.waiting = TRUE, !.hist.sched = @ + 1]

\* queue(computation): dedup, count re-queues within the flush, schedule
queueWatcher(S, w) ==
  IF w \in S.has THEN S
  ELSE LET requeue == w \in Range(S.queue)
       IN IF requeue /\ S.circular[w] + 1 > MAX_UPDATE_COUNT
          THEN [S EXCEPT !.hist.diag = @ \cup {w}]
          ELSE schedule([S EXCEPT !.queue = Append(@, w),
                                  !.has = @ \cup {w},
                                  !.circular[w] = IF requeue THEN @ + 1 ELSE @])

(***************************************************************************)
(* The evaluation functions and callbacks given to the watchers: the       *)
(* scenarios of the specification's section 8 over the root data object.   *)
(***************************************************************************)
\* the objects of the heap: the root data, a list, its element, two objects
\* not in the list at first, and the component instance
DATA == 1
ARR == 2
ELEM == 3
FRESH == 4
FROZEN == 5
VM == 6

\* flag ? a : b
EvalRender(S) ==
  LET branch(f) ==
        IF f.v = 1 THEN GetProp(f.S, DATA, "a") ELSE GetProp(f.S, DATA, "b")
  IN branch(GetProp(S, DATA, "flag"))

\* a * 2 (the specification's count * 2)
EvalDouble(S) ==
  LET twice(r) == [S |-> r.S, v |-> r.v * 2]
  IN twice(GetProp(S, DATA, "a"))

\* a + b
EvalSum(S) ==
  LET plus(ra, rb) == [S |-> rb.S, v |-> ra.v + rb.v]
      second(ra) == plus(ra, GetProp(ra.S, DATA, "b"))
  IN second(GetProp(S, DATA, "a"))

\* a, unless flag is set: then the function throws
(***************************************************************************)
(* Component instances (instance/init.js, state.js, lifecycle.js): _init,  *)
(* initData, getData, callHook, $destroy.  The object an instance gets     *)
(* from `{}` or from a data function that returns a new object is          *)
(* Scratch(vm).                                                            *)
(***************************************************************************)
Scratch(vm) == IF vm = ROOT THEN FRESH ELSE ELEM

\* history: a handler of the hook is called
Fired(S, vm, hook) ==
  [S EXCEPT !.hist.hooks = Append(@, <<vm, hook>>),
            !.vms[vm].fired[hook] = IF @ > MaxStack THEN @ ELSE @ + 1,
            !.vms[vm].last = IF hook \in {"activated", "deactivated"}
                             THEN hook ELSE @]

\* handler.call(context): what the handler of a lifecycle hook does
handlerCall(S, vm, kind, depth) ==
  CASE kind = "reads" -> GetProp(S, DATA, "b").S
    [] kind = "throws" -> [S EXCEPT !.thrown = "lifecycle"]
    [] kind = "destroys" ->
         IF depth >= MaxStack THEN [S EXCEPT !.thrown = "RangeError"]
         ELSE vm_destroy(S, vm, depth + 1)
    [] OTHER -> S

\* try { handler.call(context) } catch (e) { handleError(e, vm, info) }
invokeWithErrorHandling(S1) ==
  IF S1.thrown = NoErr THEN S1
  ELSE handleError([S1 EXCEPT !.thrown = NoErr], S1.thrown)

\* the loop of callHook over vm.$options[hook]
invokeHandlers(S, vm, hook, i, depth) ==
  IF S.thrown # NoErr \/ i > Len(S.vms[vm].options.hooks[hook]) THEN S
  ELSE invokeHandlers(
         invokeWithErrorHandling(
           handlerCall(Fired(S, vm, hook), vm,
                       S.vms[vm].options.hooks[hook][i], depth)),
         vm, hook, i + 1, depth)

\* the last statement of callHook, which an exception skips
hookPopped(S1) == IF S1.thrown # NoErr THEN S1 ELSE popTarget(S1)

callHook(S, vm, hook, depth) ==
  Framed(S, hookPopped(invokeHandlers(pushTarget(S, NoW), vm, hook, 1, depth)),
         "callHook")

\* data.call(vm, vm): what the data function does and returns
dataCall(S, vm) ==
  CASE S.vms[vm].options.data = "fresh" -> [S |-> S, v |-> Ref(Scratch(vm))]
    [] S.vms[vm].options.data = "reads" ->
         [S |-> GetProp(S, DATA, "b").S, v |-> Ref(Scratch(vm))]
    [] S.vms[vm].options.data = "array" -> [S |-> S, v |-> Ref(ARR)]
    [] S.vms[vm].options.data = "frozen" -> [S |-> S, v |-> Ref(FROZEN)]
    [] S.vms[vm].options.data = "undefined" -> [S |-> S, v |-> Absent]
    [] S.vms[vm].options.data = "throws" ->
         [S |-> [S EXCEPT !.thrown = "data"], v |-> Absent]

\* catch (e) { handleError(e, vm, `data()`); return {} } finally { popTarget() }
getDataCaught(r, vm) ==
  IF r.S.thrown = NoErr THEN [S |-> popTarget(r.S), v |-> r.v]
  ELSE [S |-> popTarget(handleError([r.S EXCEPT !.thrown = NoErr], r.S.thrown)),
        v |-> Ref(Scratch(vm))]

getDataFramed(S, r) == [S |-> Framed(S, r.S, "getData"), v |-> r.v]

getData(S, vm) ==
  getDataFramed(S, getDataCaught(dataCall(pushTarget(S, NoW), vm), vm))

\* initData after vm._data is assigned: a value that is not a plain object is
\* replaced by {} in the local variable only; observe(data, true)
initDataObserve(r, vm) ==
  IF r.S.thrown # NoErr THEN r.S
  ELSE observe([r.S EXCEPT !.vms[vm].data = r.v],
               IF isPlainObject(r.S, r.v) THEN r.v ELSE Ref(Scratch(vm)),
               TRUE).S

\* initState: initData(vm) when there is a data option, else
\* observe(vm._data = {}, true)
initData(S, vm) ==
  CASE S.vms[vm].options.data = "none" ->
         initDataObserve([S |-> S, v |-> Ref(Scratch(vm))], vm)
    [] S.vms[vm].options.data = "object" ->
         initDataObserve([S |-> S, v |-> Ref(DATA)], vm)
    [] OTHER -> initDataObserve(getData(S, vm), vm)

\* initLifecycle: parent.$children.push(vm)
initLifecycle(S, vm) ==
  IF S.vms[vm].parent = 0 THEN S
  ELSE [S EXCEPT !.vms[S.vms[vm].parent].children = Append(@, vm)]

initCreated(S1, vm) ==
  IF S1.thrown # NoErr THEN S1 ELSE callHook(S1, vm, "created", 1)

initState(S1, vm) ==
  IF S1.thrown # NoErr THEN S1 ELSE initCreated(initData(S1, vm), vm)

\* Vue.prototype._init, for the instance whose options and parent are in
\* vms[vm]
init(S, vm) ==
  IF S.thrown # NoErr THEN S
  ELSE initState(callHook(initLifecycle(
                   [S EXCEPT !.vms[vm] = [NoVm EXCEPT !.created = TRUE,
                                            !.options = S.vms[vm].options,
                                            !.parent = S.vms[vm].parent]], vm),
                 vm, "beforeCreate", 1), vm)

\* remove(parent.$children, vm)
unparent(S, vm) ==
  LET parent == S.vms[vm].parent
  IN IF parent # 0 /\ ~S.vms[parent].isBeingDestroyed
     THEN [S EXCEPT !.vms[parent].children = remove(@, vm)]
     ELSE S

\* vm._watcher.teardown() (history: the teardowns that found it active)
teardownWatcher(S, vm) ==
  LET w == S.vms[vm].watcher
  IN IF w = NoW THEN S
     ELSE teardown([S EXCEPT !.vms[vm].torn = IF S.ws[w].active THEN @ + 1 ELSE @],
                   w)

\* if (vm._data.__ob__) vm._data.__ob__.vmCount--
dataReleased(S, vm) ==
  LET data == S.vms[vm].data
  IN IF data = Absent THEN [S EXCEPT !.thrown = "TypeError"]
     ELSE IF ObOf(S, data) = NoOb THEN S
     ELSE [S EXCEPT !.obs[ObOf(S, data)].vmCount = @ - 1,
                    !.vms[vm].decremented = @ + 1]

destroyedHook(S1, vm, depth) ==
  IF S1.thrown # NoErr THEN S1
  ELSE callHook([S1 EXCEPT !.vms[vm].isDestroyed = TRUE], vm, "destroyed", depth)

destroyBody(S1, vm, depth) ==
  IF S1.thrown # NoErr THEN S1
  ELSE destroyedHook(
         dataReleased(
           teardownWatcher(
             unparent([S1 EXCEPT !.vms[vm].isBeingDestroyed = TRUE], vm), vm),
           vm),
         vm, depth)

\* Vue.prototype.$destroy, called at call depth `depth`
vm_destroy(S, vm, depth) ==
  IF S.vms[vm].isBeingDestroyed THEN S
  ELSE destroyBody(callHook(S, vm, "beforeDestroy", depth), vm, depth)

\* the first render instantiates the child component
mountChild(S) == IF S.vms[CHILD].created THEN S ELSE init(S, CHILD)

\* a render function that has instantiated a child component goes on to
\* read data.a
EvalMounting(S1) ==
  IF S1.thrown # NoErr THEN [S |-> S1, v |-> Absent] ELSE GetProp(S1, DATA, "a")

EvalFaulty(S) ==
  LET check(ra, rf) ==
        IF rf.v = 1 THEN [S |-> [rf.S EXCEPT !.thrown = "evaluator"], v |-> Absent]
        ELSE [S |-> rf.S, v |-> ra.v]
      second(ra) == check(ra, GetProp(ra.S, DATA, "flag"))
  IN second(GetProp(S, DATA, "a"))

\* reads p and writes it: p = (p + 1) % 2
EvalLoopWrite(r) == [S |-> SetProp(r.S, DATA, "p", (r.v + 1) % 2), v |-> r.v]

EvalLoop(S) == EvalLoopWrite(GetProp(S, DATA, "p"))

\* the sum of list[i].x over the object elements of data.list
EvalLister(S, a, i, acc) ==
  IF i > Len(S.heap[a].elems) THEN [S |-> S, v |-> acc]
  ELSE LET e == S.heap[a].elems[i]
           add(r) == EvalLister(r.S, a, i + 1, acc + (IF r.v = Absent THEN 0 ELSE r.v))
       IN IF isPlainObject(S, e) THEN add(GetProp(S, Obj(e), "x"))
          ELSE EvalLister(S, a, i + 1, acc)

\* the function of "view" reads vm.sum, then data.flag, and yields the sum
EvalViewFlag(r) ==
  LET yield(g) == [S |-> g.S, v |-> r.v]
  IN yield(GetProp(r.S, DATA, "flag"))

Evaluator(S, w) ==
  CASE w = "render" -> EvalRender(S)
    [] w = "double" -> EvalDouble(S)
    [] w = "sum" -> EvalSum(S)
    [] w = "loop" -> EvalLoop(S)
    [] w = "lister" ->
         LET elements(r) ==
               IF isArray(r.S, r.v) THEN EvalLister(r.S, Obj(r.v), 1, 0)
               ELSE [S |-> r.S, v |-> 0]
         IN elements(GetProp(S, DATA, "list"))
    [] w = "reader" -> GetProp(S, DATA, "list")
    [] w = "attrs" -> GetProp(S, VM, "x")
    [] w = "switch" -> GetProp(S, DATA, "a")
    [] w = "view" -> EvalViewFlag(computedGetter(S, "sum"))
    [] w = "faulty" -> EvalFaulty(S)
    [] w = "mounting" -> EvalMounting(mountChild(GetProp(S, DATA, "flag").S))

\* the callback of "double" writes b = a % 2 (a downstream reaction), that
\* of "switch" writes flag = a % 2, that of "faulty" throws when the new value
\* is 2; the others have no callback (noop)
Cb(S, w, value, oldValue) ==
  IF w \in {"double", "switch"}
  THEN SetProp(S, DATA, IF w = "double" THEN "b" ELSE "flag",
               IF w = "double" THEN (value \div 2) % 2 ELSE value % 2)
  ELSE IF w = "faulty" /\ value = 2 THEN [S EXCEPT !.thrown = "callback"]
  ELSE S

(***************************************************************************)
(* Initial states.  Raw is the program before any data is observed; the    *)
(* heap of a specification is built by observe() itself.                   *)
(***************************************************************************)
NoObject ==
  [kind |-> "object", ob |-> NoOb,
   fields |-> [k \in Keys |-> Absent], dep |-> [k \in Keys |-> NoDep],
   childOb |-> [k \in Keys |-> NoOb], shallow |-> [k \in Keys |-> FALSE],
   wrapped |-> [k \in Keys |-> <<>>], noSetter |-> [k \in Keys |-> FALSE],
   elems |-> <<>>, extensible |-> TRUE, isVue |-> FALSE, patched |-> FALSE,
   isBeingDestroyed |-> FALSE, customSetter |-> [k \in Keys |-> FALSE]]

NoHist ==
  [op |-> "init", ran |-> <<>>, notified |-> <<>>, log |-> <<>>, diag |-> {},
   first |-> 0, cnt |-> [w \in Progs |-> 0], reupd |-> {}, ret |-> <<>>,
   method |-> "", args |-> <<>>, key |-> "", warned |-> FALSE,
   snaps |-> <<>>, calls |-> <<>>, cbs |-> <<>>, torn |-> {}, trace |-> <<>>,
   errs |-> <<>>, sched |-> 0, custom |-> <<>>,
   installs |-> <<>>, used |-> {}, frames |-> <<>>, hooks |-> <<>>]

Raw(h) ==
  [heap |-> h, obs |-> <<>>, subs |-> <<>>, uid |-> 0, shouldObserve |-> TRUE,
   ws |-> [w \in Progs |-> NoWatcher], wuid |-> 0, target |-> NoW,
   targetStack |-> <<>>, queue |-> <<>>, has |-> {}, waiting |-> FALSE,
   flushing |-> FALSE, index |-> 1, circular |-> [w \in Progs |-> 0],
   async |-> TRUE, thrown |-> NoErr, running |-> FALSE, inBrowser |-> TRUE,
   errorHandler |-> "none", errorCaptured |-> <<>>,
   propsOptions |-> [k \in PropKeySet |-> NoPropOption],
   installedPlugins |-> <<>>, vms |-> [v \in Vms |-> NoVm], ka |-> NoKa,
   fa |-> NoFactory, el |-> NoEl, hist |-> NoHist]

\* data () { return { a: 1, b: 0, flag: 1, p: 0 } }
CoreHeap ==
  [o \in Objs |->
     IF o = DATA
     THEN [NoObject EXCEPT !.fields = [k \in Keys |->
              CASE k = "a" -> 1 [] k = "b" -> 0 [] k = "flag" -> 1
                [] k = "p" -> 0 [] OTHER -> Absent]]
     ELSE IF o = VM THEN [NoObject EXCEPT !.isVue = TRUE]
     ELSE NoObject]

\* initData: observe(data, true)
Init == InitIs(observe(Raw(CoreHeap), Ref(DATA), TRUE).S)

(***************************************************************************)
(* Actions of the core model: user code running between flushes, and the   *)
(* deferred flush callback, one loop iteration per step.                   *)
(***************************************************************************)
\* the state an operation starts from: the history of the last operation is
\* dropped, and that of the last flush when no flush is pending
Start(op) ==
  LET done == ~waiting
  IN [Cur EXCEPT !.hist.op = op, !.hist.ran = <<>>,
                 !.hist.notified = <<>>, !.hist.ret = <<>>,
                 !.hist.snaps = <<>>, !.hist.calls = <<>>, !.hist.cbs = <<>>,
                 !.hist.trace = <<>>, !.hist.errs = <<>>, !.thrown = NoErr,
                 !.hist.sched = 0, !.hist.custom = <<>>, !.hist.installs = <<>>,
                 !.hist.frames = <<>>, !.hist.hooks = <<>>,
                 !.hist.method = "", !.hist.args = <<>>,
                 !.hist.key = "", !.hist.warned = FALSE,
                 !.hist.log = IF done THEN <<>> ELSE @,
                 !.hist.diag = IF done THEN {} ELSE @,
                 !.hist.first = IF done THEN 0 ELSE @,
                 !.hist.cnt = IF done THEN [w \in Progs |-> 0] ELSE @,
                 !.hist.reupd = IF done THEN {} ELSE @]

KeyVals(k) == IF k = "a" THEN 1..MaxVal ELSE 0..1

\* new Watcher(...): computed (lazy), $watch (user), render (eager)
NewWatcherOf(P, Sync) ==
  \E w \in P : \E sync \in Sync :
    /\ ~running
    /\ ws[w].id = 0
    /\ sync => w = "render"
    /\ Assign(Watcher(Start("new"), w, w = "sum",
                      w \in {"double", "loop", "faulty"}, sync))

\* history: a write that changes data[k] reaches the subscribers of its dep
\* (counted per subscriber, up to 2, until the next flush ends)
Written(S, k, v) ==
  IF v = S.heap[DATA].fields[k] THEN S
  ELSE [S EXCEPT !.hist.cnt = [w \in Progs |->
          IF w \in Range(S.subs[S.heap[DATA].dep[k]]) /\ @[w] < 2
          THEN @[w] + 1 ELSE @[w]]]

\* data[k] = v
WriteOf(K) ==
  \E k \in K : \E v \in KeyVals(k) :
    /\ ~running
    /\ Assign(SetProp(Written(Start("write"), k, v), DATA, k, v))

\* vm.sum
ReadComputed ==
  /\ ~running
  /\ ws["sum"].id # 0
  /\ LET returned(r) == Assign([r.S EXCEPT !.hist.ret = <<r.v>>])
     IN returned(computedGetter(Start("read"), "sum"))

\* config.async = b
SetAsync ==
  \E b \in BOOLEAN :
    /\ ~running /\ ~waiting
    /\ async # b
    /\ Assign([Start("config") EXCEPT !.async = b])

\* the state a step of the deferred flush starts from: the call recorded by
\* the last operation is dropped
Step(op) ==
  [Cur EXCEPT !.hist.op = op, !.hist.method = "", !.hist.args = <<>>,
              !.hist.ret = <<>>, !.hist.key = "", !.hist.warned = FALSE,
              !.hist.errs = <<>>, !.thrown = NoErr, !.hist.sched = 0,
              !.hist.custom = <<>>, !.hist.frames = <<>>, !.hist.hooks = <<>>]

\* the deferred flush callback starts
FlushBegin ==
  /\ waiting /\ ~flushing
  /\ Assign([flushBegin(Step("flushBegin")) EXCEPT !.running = TRUE])

\* an exception that leaves an iteration ends the flush callback
Unwound(S) == [S EXCEPT !.running = (S.thrown = NoErr)]

FlushIter ==
  /\ running /\ index <= Len(queue)
  /\ Assign(Unwound(flushIter([Step("flushIter") EXCEPT !.hist.ran = <<>>,
                                               !.hist.notified = <<>>,
                                               !.hist.snaps = <<>>,
                                               !.hist.calls = <<>>,
                                               !.hist.cbs = <<>>,
                                               !.hist.trace = <<>>])))

FlushEnd ==
  /\ running /\ index > Len(queue)
  /\ Assign([resetSchedulerState(Step("flushEnd")) EXCEPT !.running = FALSE])

(***************************************************************************)
(* Spec: an eager and a user watcher over the root data, asynchronous      *)
(* flush.                                                                  *)
(***************************************************************************)
NewWatcher == NewWatcherOf({"render", "double"}, {FALSE})

Write == WriteOf({"a", "b", "flag"})

Next ==
  \/ NewWatcher
  \/ Write
  \/ FlushBegin
  \/ FlushIter
  \/ FlushEnd

Spec == Init /\ [][Next]_vars

(***************************************************************************)
(* Claims checked under Spec.                                              *)
(***************************************************************************)
\* the value the evaluation function of w yields on the current data
Expected(w) ==
  LET f == heap[DATA].fields
  IN CASE w = "double" -> f["a"] * 2
       [] w = "render" -> IF f["flag"] = 1 THEN f["a"] ELSE f["b"]
       [] w = "sum" -> f["a"] + f["b"]
       [] OTHER -> Absent

C2_AscendingAll ==
  \A i \in 1..Len(hist.log) : \A j \in 1..Len(hist.log) :
    i < j => ws[hist.log[i]].id <= ws[hist.log[j]].id

\* C2 (amended): the watchers that were in the buffer when the flush started
\* are evaluated in ascending creation-id order; the flush evaluates the buffer
\* front to back, so a watcher queued while the flush runs is evaluated after
\* the watcher whose evaluation queued it, whatever its id.
C2_AscendingInitial ==
  flushing =>
    /\ hist.log = SubSeq(queue, 1, index - 1)
    /\ hist.first <= Len(queue)
    /\ \A i \in 1..hist.first : \A j \in 1..hist.first :
         i < j => ws[queue[i]].id < ws[queue[j]].id

\* a finished flush of two queued watchers in which one was queued again
C2_Witness ==
  /\ flushing /\ index > Len(queue)
  /\ hist.first = 2
  /\ Len(hist.log) = 3
  /\ ws[hist.log[2]].id > ws[hist.log[3]].id

\* C3 as stated: within one flush cycle the buffer holds each watcher at most once.
C3_OncePerCycle ==
  \A w \in Progs : Count(queue, w) <= 1

\* C3 (amended): the part of the buffer not yet evaluated holds each watcher at
\* most once (it is the dedup set), and a watcher notified once or several
\* times before the flush starts is in the buffer exactly once.
C3_PendingOnce ==
  /\ \A i \in index..Len(queue) : \A j \in index..Len(queue) :
       i # j => queue[i] # queue[j]
  /\ has = {queue[i] : i \in index..Len(queue)}
  /\ (~flushing /\ hist.op # "flushEnd") =>
       \A w \in Progs :
         (hist.cnt[w] >= 1 /\ ~ws[w].lazy /\ ~ws[w].sync) => Count(queue, w) = 1

\* a watcher notified twice before the flush, once in the buffer
C3_Witness ==
  /\ ~flushing /\ waiting
  /\ hist.op = "write"
  /\ hist.cnt["double"] = 2
  /\ queue = <<"double">>

\* the deps whose subscriber list holds w
SubscribedTo(w) == {d \in DOMAIN subs : w \in Range(subs[d])}

\* the deps the evaluation function of w reads on the current data
ReadSet(w) ==
  LET dp == heap[DATA].dep
      f == heap[DATA].fields
  IN CASE w = "render" ->
            {dp["flag"]} \cup (IF f["flag"] = 1 THEN {dp["a"]} ELSE {dp["b"]})
       [] w = "double" -> {dp["a"]}
       [] w = "sum" -> {dp["a"], dp["b"]}
       [] OTHER -> {}

\* C4: after an evaluation of a watcher the deps whose subscriber list holds it
\* are exactly the deps read in that evaluation, whatever it read in earlier
\* runs; between evaluations they are exactly the watcher's own dep set.
C4_ExactDeps ==
  \A w \in {"render", "double"} :
    ws[w].id # 0 =>
      /\ SubscribedTo(w) = ws[w].deps
      /\ \A d \in ws[w].deps : Count(subs[d], w) = 1
      /\ (hist.op \in {"new", "flushIter"} /\ w \in Range(hist.ran))
           => SubscribedTo(w) = ReadSet(w)

\* render re-evaluated in a flush with the flag false: on b, no longer on a
C4_Witness ==
  /\ hist.op = "flushIter"
  /\ "render" \in Range(hist.ran)
  /\ heap[DATA].fields["flag"] = 0
  /\ "render" \notin Range(subs[heap[DATA].dep["a"]])
  /\ "render" \in Range(subs[heap[DATA].dep["b"]])
  /\ "double" \in Range(subs[heap[DATA].dep["a"]])

(***************************************************************************)
(* SpecLoop: a watcher whose evaluation writes the property it reads, next *)
(* to an ordinary one.                                                     *)
(***************************************************************************)
NewWatcherLoop == NewWatcherOf({"loop", "render"}, {FALSE})

WriteLoop == WriteOf({"p", "a", "flag"})

NextLoop ==
  \/ NewWatcherLoop
  \/ WriteLoop
  \/ FlushBegin
  \/ FlushIter
  \/ FlushEnd

SpecLoop == Init /\ [][NextLoop]_vars

\* C5 as stated: the self-triggering watcher is evaluated at most
\* MAX_UPDATE_COUNT times in one flush.
C5_AtMostThreshold ==
  Count(hist.log, "loop") <= MAX_UPDATE_COUNT

\* the number of loop iterations a running flush can still make: the entries
\* not yet evaluated, plus the times each watcher can still enter the buffer
Rank ==
  LET RECURSIVE sum(_)
      sum(P) ==
        IF P = {} THEN 0
        ELSE LET w == CHOOSE x \in P : TRUE
             IN (MAX_UPDATE_COUNT - circular[w])
                + (IF w \in Range(queue) THEN 0 ELSE 1)
                + sum(P \ {w})
  IN (Len(queue) + 1 - index) + sum(Progs)

\* C5 (amended): every flush terminates: each iteration of a running flush
\* lowers Rank, which is never negative.  A watcher whose evaluation writes the
\* property it reads is evaluated MAX_UPDATE_COUNT + 1 times in the flush (its
\* first entry and MAX_UPDATE_COUNT re-queues); the re-queue after that is
\* dropped with a diagnostic, and the rest of the buffer is still evaluated.
C5_LoopTerminates ==
  [][ /\ Count(hist'.log, "loop") <= MAX_UPDATE_COUNT + 1
      /\ hist'.diag \subseteq {"loop"}
      /\ (flushing /\ flushing') => (Rank' < Rank /\ Rank' >= 0)
      /\ (flushing' /\ index' > Len(queue') /\ "loop" \in Range(queue')) =>
           /\ Count(hist'.log, "loop") = MAX_UPDATE_COUNT + 1
           /\ "loop" \in hist'.diag
           /\ Range(queue') = Range(hist'.log)
    ]_vars

\* a flush of both watchers that ended after the diagnostic
C5_Witness ==
  /\ hist.op = "flushEnd"
  /\ "loop" \in hist.diag
  /\ Count(hist.log, "loop") = MAX_UPDATE_COUNT + 1
  /\ "render" \in Range(hist.log)

(***************************************************************************)
(* SpecComputed: a lazy watcher (computed property sum = a + b).           *)
(***************************************************************************)
NewWatcherComputed == NewWatcherOf({"sum", "double"}, {FALSE})

WriteComputed == WriteOf({"a", "b", "flag"})

NextComputed ==
  \/ NewWatcherComputed
  \/ WriteComputed
  \/ ReadComputed
  \/ FlushBegin
  \/ FlushIter
  \/ FlushEnd

SpecComputed == Init /\ [][NextComputed]_vars

\* C6: the computed property is evaluated by a read exactly when it is dirty
\* (it is dirty from its creation, so the first read evaluates it), at most
\* once per read; it becomes dirty only by a write that changes an input, and
\* every such write makes it dirty; a read returns a + b of the current data
\* and leaves it clean; while clean its cached value is a + b.
C6_LazyCache ==
  /\ [](ws["sum"].id # 0 =>
          /\ (~ws["sum"].dirty => ws["sum"].value = Expected("sum"))
          /\ (hist.op = "read" => (hist.ret = <<Expected("sum")>> /\ ~ws["sum"].dirty)))
  /\ [][ /\ (hist'.op = "read" =>
               hist'.ran = IF ws["sum"].dirty THEN <<"sum">> ELSE <<>>)
         /\ (ws["sum"].id = 0 /\ ws'["sum"].id # 0) =>
               (ws'["sum"].dirty /\ "sum" \notin Range(hist'.ran))
         /\ (ws["sum"].id # 0 /\ ~ws["sum"].dirty /\ ws'["sum"].dirty) =>
               Expected("sum")' # Expected("sum")
         /\ (ws["sum"].id # 0 /\ ( heap'[DATA].fields["a"] # heap[DATA].fields["a"]
                                  \/ heap'[DATA].fields["b"] # heap[DATA].fields["b"])) =>
               ws'["sum"].dirty
       ]_vars

\* a second read with no write in between: no evaluation, the cached value
C6_Witness ==
  /\ hist.op = "read"
  /\ hist.ran = <<>>
  /\ hist.ret = <<4>>
  /\ heap[DATA].fields["a"] = 3

(***************************************************************************)
(* SpecSync: as Spec, with config.async switched on and off.               *)
(***************************************************************************)
NewWatcherSync == NewWatcherOf({"render", "double"}, BOOLEAN)

NextSync ==
  \/ NewWatcherSync
  \/ Write
  \/ SetAsync
  \/ FlushBegin
  \/ FlushIter
  \/ FlushEnd

SpecSync == Init /\ [][NextSync]_vars

\* C7: with config.async set, a write to a reactive property returns without
\* any evaluation function having run, except those of watchers marked sync:
\* it has queued the eager and user subscribers for the deferred flush.
C7_WriteDefers ==
  (hist.op = "write" /\ async) =>
    /\ \A i \in 1..Len(hist.ran) : ws[hist.ran[i]].sync
    /\ ~running
    /\ \A w \in Progs :
         (hist.cnt[w] >= 1 /\ ~ws[w].lazy /\ ~ws[w].sync) => (w \in has /\ waiting)

\* a write that changed a property with two subscribers, both now queued
C7_Witness ==
  /\ hist.op = "write" /\ async
  /\ hist.ran = <<>>
  /\ Len(hist.notified) = 1
  /\ has = {"render", "double"}
  /\ ~ws["render"].sync

(***************************************************************************)
(* The array method interceptor (observer/array.js).                       *)
(***************************************************************************)
methodsToPatch == {"push", "pop", "shift", "unshift", "splice", "sort", "reverse"}

\* the order of the default sort, by String(v): a one-digit number sorts before
\* "[object Object]", and undefined sorts last
SortKey(v) == IF isObject(v) THEN 10 ELSE IF v = Absent THEN 11 ELSE v

\* Array.prototype.sort without comparator: stable
sortNative(s) ==
  LET RECURSIVE insert(_, _)
      insert(r, v) ==
        IF Len(r) = 0 THEN <<v>>
        ELSE IF SortKey(v) < SortKey(Head(r)) THEN <<v>> \o r
        ELSE <<Head(r)>> \o insert(Tail(r), v)
      RECURSIVE upto(_)
      upto(n) == IF n = 0 THEN <<>> ELSE insert(upto(n - 1), s[n])
  IN upto(Len(s))

\* arrayProto[method].apply(this, args): the native operation on array a.  The
\* result is <<value>> (pop, shift: the element or undefined; push, unshift:
\* the new length; sort, reverse: the array itself) or the removed elements
\* (splice).
original(S, a, method, args) ==
  LET e == S.heap[a].elems
      n == Len(e)
      put(x, r) == [S |-> [S EXCEPT !.heap[a].elems = x], v |-> r]
  IN CASE method = "push" -> put(e \o args, <<n + Len(args)>>)
       [] method = "unshift" -> put(args \o e, <<n + Len(args)>>)
       [] method = "pop" ->
            IF n = 0 THEN put(e, <<Absent>>) ELSE put(SubSeq(e, 1, n - 1), <<e[n]>>)
       [] method = "shift" ->
            IF n = 0 THEN put(e, <<Absent>>) ELSE put(Tail(e), <<e[1]>>)
       [] method = "splice" ->
            LET rel == IF Len(args) >= 1 THEN args[1] ELSE 0
                start == IF rel < 0 THEN (IF n + rel < 0 THEN 0 ELSE n + rel)
                         ELSE (IF rel > n THEN n ELSE rel)
                dc == IF Len(args) = 0 THEN 0
                      ELSE IF Len(args) = 1 THEN n - start
                      ELSE IF args[2] < 0 THEN 0
                      ELSE IF args[2] > n - start THEN n - start
                      ELSE args[2]
            IN put(SubSeq(e, 1, start) \o SubSeq(args, 3, Len(args))
                     \o SubSeq(e, start + dc + 1, n),
                   SubSeq(e, start + 1, start + dc))
       [] method = "sort" -> put(sortNative(e), <<Ref(a)>>)
       [] method = "reverse" -> put(Reverse(e), <<Ref(a)>>)

mutatorNoObserve(S, a, method, args) ==
  LET changed(r) == [S |-> notify(r.S, r.S.obs[r.S.heap[a].ob].dep), v |-> r.v]
  IN changed(original(S, a, method, args))

mutatorQuiet(S, a, method, args) ==
  LET changed(S1, result) ==
        [S |-> IF S1.heap[a].elems = S.heap[a].elems THEN S1
               ELSE notify(S1, S1.obs[S1.heap[a].ob].dep),
         v |-> result]
      inserted(r) ==
        changed(CASE method \in {"push", "unshift"} -> observeArray(r.S, args)
                  [] method = "splice" -> observeArray(r.S, SubSeq(args, 3, Len(args)))
                  [] OTHER -> r.S,
                r.v)
  IN inserted(original(S, a, method, args))

\* the end of the wrapper: ob.dep.notify(); return result
mutatorNotify(S1, a, result) ==
  [S |-> notify(S1, S1.obs[S1.heap[a].ob].dep), v |-> result]

\* the wrapper after the native call, whose result and state are r:
\* if (inserted) ob.observeArray(inserted)
mutatorInserted(r, a, method, args) ==
  mutatorNotify(CASE method \in {"push", "unshift"} -> observeArray(r.S, args)
                  [] method = "splice" -> observeArray(r.S, SubSeq(args, 3, Len(args)))
                  [] OTHER -> r.S,
                a, r.v)

\* the wrapper installed for each of methodsToPatch on an observed array
mutator(S, a, method, args) ==
  mutatorInserted(original(S, a, method, args), a, method, args)

(***************************************************************************)
(* Data with a list: { list: [1, {x: 0}] }, two objects not yet in it, a   *)
(* plain one and a frozen one, and a component instance.                   *)
(***************************************************************************)
ListHeap ==
  [o \in Objs |->
     CASE o = DATA -> [NoObject EXCEPT !.fields["list"] = Ref(ARR)]
       [] o = ARR -> [NoObject EXCEPT !.kind = "array", !.elems = <<1, Ref(ELEM)>>]
       [] o = FROZEN -> [NoObject EXCEPT !.fields["x"] = 0, !.extensible = FALSE]
       [] o = VM -> [NoObject EXCEPT !.isVue = TRUE]
       [] OTHER -> [NoObject EXCEPT !.fields["x"] = 0]]

\* initData: observe(data, true)
InitList == InitIs(observe(Raw(ListHeap), Ref(DATA), TRUE).S)

\* observe(value, asRootData)
ObserveCall ==
  \E value \in {0} \cup {Ref(o) : o \in Objs} : \E asRootData \in BOOLEAN :
    /\ (asRootData /\ ObOf(Cur, value) # NoOb) =>
         obs[ObOf(Cur, value)].vmCount < MaxRoots
    /\ LET returned(r) == Assign([r.S EXCEPT !.hist.ret = <<r.v>>])
       IN returned(observe([Start("observe") EXCEPT
                              !.hist.args = <<value, IF asRootData THEN 1 ELSE 0>>],
                           value, asRootData))

\* toggleObserving(b)
ToggleObserving ==
  \E b \in BOOLEAN :
    /\ ~running
    /\ shouldObserve # b
    /\ Assign(toggleObserving(Start("toggle"), b))

\* o.x = v (history: the object, the value, whether a flush was pending)
WriteElem ==
  \E o \in {ELEM, FRESH} : \E v \in 0..1 :
    /\ ~running
    /\ Assign(SetProp([Start("writeElem") EXCEPT
                         !.hist.args = <<o, v, IF waiting THEN 1 ELSE 0>>],
                      o, "x", v))

\* the arguments of push and unshift
ArgLists == {<<>>, <<0>>, <<Ref(FRESH)>>, <<Ref(FROZEN), Ref(FRESH)>>}

\* the arguments of splice from the third on
SpliceItems == {<<>>, <<Ref(FROZEN), Ref(FRESH)>>}

\* start of splice: from the end, inside, beyond the end
SpliceStarts == {0 - 1, 1, MaxLen + 1}

\* deleteCount of splice: none, one, more than there are
SpliceCounts == {0, 1, MaxLen + 1}

CallArgs(method, Lists, Items) ==
  CASE method \in {"push", "unshift"} -> Lists
    [] method = "splice" ->
         {<<s, d>> \o it : s \in SpliceStarts, d \in SpliceCounts, it \in Items}
    [] OTHER -> {<<>>}

\* data.list[method](...args)
ArrayCallOf(M, Lists, Items) ==
  \E method \in M : \E args \in CallArgs(method, Lists, Items) :
    /\ ~running
    /\ heap[ARR].patched
    /\ Len(original(Cur, ARR, method, args).S.heap[ARR].elems) <= MaxLen
    /\ LET returned(r) == Assign([r.S EXCEPT !.hist.ret = r.v])
       IN returned(mutator([Start("array") EXCEPT !.hist.method = method,
                                                  !.hist.args = args],
                           ARR, method, args))

(***************************************************************************)
(* SpecObs: observe() called on observed and unobserved values, with the   *)
(* observing switch on and off.                                            *)
(***************************************************************************)
NextObs ==
  \/ ObserveCall
  \/ ToggleObserving
  \/ WriteElem

SpecObs == InitList /\ [][NextObs]_vars

\* C8: a call of observe on a value that already has an Observer returns that
\* Observer, creates no Observer and no Dep, and leaves every object (its
\* accessors and their deps) and every subscriber list as they were, with the
\* observing switch on or off; the Observer a value has got is the one the
\* first call returned, and it never changes.
C8_ObserveIdempotent ==
  [][ /\ \A o \in Objs : heap[o].ob # NoOb => heap'[o].ob = heap[o].ob
      /\ hist'.op = "observe" =>
           LET value == hist'.args[1]
           IN /\ (isObject(value) /\ heap[Obj(value)].ob = NoOb) =>
                   hist'.ret = <<heap'[Obj(value)].ob>>
              /\ (isObject(value) /\ heap[Obj(value)].ob # NoOb) =>
                   /\ hist'.ret = <<heap[Obj(value)].ob>>
                   /\ Len(obs') = Len(obs)
                   /\ \A b \in 1..Len(obs) :
                        obs'[b].value = obs[b].value /\ obs'[b].dep = obs[b].dep
                   /\ uid' = uid
                   /\ heap' = heap
                   /\ subs' = subs
    ]_vars

\* observe(FRESH) with the switch off, after a call with the switch on
C8_Witness ==
  /\ hist.op = "observe"
  /\ hist.args = <<Ref(FRESH), 0>>
  /\ ~shouldObserve
  /\ heap[FRESH].ob # NoOb
  /\ hist.ret = <<heap[FRESH].ob>>

(***************************************************************************)
(* SpecArr: the seven intercepted methods called on the observed list.     *)
(***************************************************************************)
ArrayCall == ArrayCallOf(methodsToPatch, ArgLists, SpliceItems)

NextArr ==
  \/ ArrayCall
  \/ ToggleObserving

SpecArr == InitList /\ [][NextArr]_vars

\* the elements a call inserts: all arguments of push and unshift, the
\* arguments of splice from the third on
InsertedBy(method, args) ==
  CASE method \in {"push", "unshift"} -> args
    [] method = "splice" -> SubSeq(args, 3, Len(args))
    [] OTHER -> <<>>

\* the Dep of the list's Observer
ListDep == obs[heap[ARR].ob].dep

NewWatcherList == NewWatcherOf({"lister"}, {FALSE})

ListCall ==
  ArrayCallOf({"push", "unshift", "splice", "pop"}, {<<Ref(FRESH)>>}, {<<Ref(FRESH)>>})

NextList ==
  \/ NewWatcherList
  \/ ListCall
  \/ WriteElem
  \/ FlushBegin
  \/ FlushIter
  \/ FlushEnd

SpecList == InitList /\ [][NextList]_vars

\* the object elements of the list in heap h
ObjElems(h) ==
  {Obj(h[ARR].elems[i]) : i \in {j \in 1..Len(h[ARR].elems) : isObject(h[ARR].elems[j])}}

IndexKeys == <<"0", "1", "2", "3", "4", "5">>

\* isValidArrayIndex(val): parseFloat(String(val)) is a non-negative integer
isValidArrayIndex(val) == \E i \in 1..Len(IndexKeys) : IndexKeys[i] = val

\* the number a valid index key stands for
ToIndex(val) == (CHOOSE i \in 1..Len(IndexKeys) : IndexKeys[i] = val) - 1

\* key in target, for a target whose prototype is Object.prototype
In(S, o, key) == hasOwn(S, o, key) \/ key \in ObjectPrototype

\* warn(msg)
warn(S) == [S EXCEPT !.hist.warned = TRUE]

\* target.splice(...args): the interceptor when the array has one
splice(S, o, args) ==
  IF S.heap[o].patched THEN mutator(S, o, "splice", args).S
  ELSE original(S, o, "splice", args).S

\* target.length = Math.max(target.length, key)
setLength(S, o, n) ==
  [S EXCEPT !.heap[o].elems =
     IF n > Len(@) THEN @ \o [i \in 1..(n - Len(@)) |-> Absent] ELSE @]

setByIndex(S, o, key, val) ==
  LET ob == S.heap[o].ob
      returns(S1) == [S |-> S1, v |-> val]
  IN IF S.heap[o].kind = "array" /\ isValidArrayIndex(key)
     THEN returns([setLength(S, o, ToIndex(key) + 1) EXCEPT
                     !.heap[o].elems[ToIndex(key) + 1] = val])
     ELSE IF In(S, o, key) /\ key \notin ObjectPrototype
     THEN returns(SetProp(S, o, key, val))
     ELSE IF S.heap[o].isVue \/ (ob # NoOb /\ S.obs[ob].vmCount # 0)
     THEN returns(warn(S))
     ELSE IF ob = NoOb
     THEN returns(SetProp(S, o, key, val))
     ELSE returns(notify(defineReactive(S, S.obs[ob].value, key, val, TRUE, FALSE, FALSE),
                         S.obs[ob].dep))

setRootToo(S, o, key, val) ==
  LET ob == S.heap[o].ob
      returns(S1) == [S |-> S1, v |-> val]
  IN IF S.heap[o].kind = "array" /\ isValidArrayIndex(key)
     THEN returns(splice(setLength(S, o, ToIndex(key)), o,
                         <<ToIndex(key), 1, val>>))
     ELSE IF In(S, o, key) /\ key \notin ObjectPrototype
     THEN returns(SetProp(S, o, key, val))
     ELSE IF S.heap[o].isVue \/ (ob # NoOb /\ S.obs[ob].vmCount # 0)
     THEN returns(SetProp(warn(S), o, key, val))
     ELSE IF ob = NoOb
     THEN returns(SetProp(S, o, key, val))
     ELSE returns(notify(defineReactive(S, S.obs[ob].value, key, val, TRUE, FALSE, FALSE),
                         S.obs[ob].dep))

\* set(target, key, val)
set(S, o, key, val) ==
  LET ob == S.heap[o].ob
      returns(S1) == [S |-> S1, v |-> val]
  IN IF S.heap[o].kind = "array" /\ isValidArrayIndex(key)
     THEN returns(splice(setLength(S, o, ToIndex(key)), o,
                         <<ToIndex(key), 1, val>>))
     ELSE IF In(S, o, key) /\ key \notin ObjectPrototype
     THEN returns(SetProp(S, o, key, val))
     ELSE IF S.heap[o].isVue \/ (ob # NoOb /\ S.obs[ob].vmCount # 0)
     THEN returns(warn(S))
     ELSE IF ob = NoOb
     THEN returns(SetProp(S, o, key, val))
     ELSE returns(notify(defineReactive(S, S.obs[ob].value, key, val, TRUE, FALSE, FALSE),
                         S.obs[ob].dep))

\* delete target[key]
deleteProp(S, o, key) ==
  [S EXCEPT !.heap[o].fields[key] = Absent,
            !.heap[o].dep[key] = NoDep,
            !.heap[o].childOb[key] = NoOb,
            !.heap[o].shallow[key] = FALSE,
            !.heap[o].wrapped[key] = <<>>,
            !.heap[o].noSetter[key] = FALSE]

delQuiet(S, o, key) ==
  LET ob == S.heap[o].ob
  IN IF S.heap[o].kind = "array" /\ isValidArrayIndex(key)
     THEN splice(S, o, <<ToIndex(key), 1>>)
     ELSE IF S.heap[o].isVue \/ (ob # NoOb /\ S.obs[ob].vmCount # 0)
     THEN warn(S)
     ELSE IF ~hasOwn(S, o, key) THEN S
     ELSE deleteProp(S, o, key)

\* del(target, key)
del(S, o, key) ==
  LET ob == S.heap[o].ob
  IN IF S.heap[o].kind = "array" /\ isValidArrayIndex(key)
     THEN splice(S, o, <<ToIndex(key), 1>>)
     ELSE IF S.heap[o].isVue \/ (ob # NoOb /\ S.obs[ob].vmCount # 0)
     THEN warn(S)
     ELSE IF ~hasOwn(S, o, key) THEN S
     ELSE IF ob = NoOb THEN deleteProp(S, o, key)
     ELSE notify(deleteProp(S, o, key), S.obs[ob].dep)

\* the keys of a call: the indices up to the one after the end of the list, a
\* key of every object of the model, and a key that Object.prototype has too
SetKeys(o) ==
  IF heap[o].kind = "array"
  THEN {IndexKeys[i] : i \in 1..(Len(heap[o].elems) + 2)}
  ELSE {"x", "valueOf"}

\* history: what target[key] holds before a call (undefined when nothing)
Held(o, key) ==
  IF heap[o].kind # "array" THEN heap[o].fields[key]
  ELSE IF ToIndex(key) < Len(heap[o].elems) THEN heap[o].elems[ToIndex(key) + 1]
  ELSE Absent

\* set(target, key, val) (history: the target, the value, what the key held)
SetCallOf(Targets, Vals) ==
  \E o \in Targets : \E key \in SetKeys(o) : \E val \in Vals :
    /\ IF heap[o].kind = "array" THEN ToIndex(key) < MaxLen
       ELSE uid < MaxDeps /\ Len(heap[o].wrapped[key]) < MaxWrap
    /\ LET returned(r) == Assign([r.S EXCEPT !.hist.ret = <<r.v>>])
       IN returned(set([Start("set") EXCEPT !.hist.args = <<o, val, Held(o, key)>>,
                                            !.hist.key = key],
                       o, key, val))

\* the keys of a call of del: those of set, and every own key of the object
DelKeys(o) ==
  SetKeys(o) \cup (IF heap[o].kind = "array" THEN {}
                   ELSE {k \in Keys : hasOwn(Cur, o, k)})

\* del(target, key) (history: the target, what the key held)
DelCallOf(Targets) ==
  \E o \in Targets : \E key \in DelKeys(o) :
    Assign(del([Start("del") EXCEPT !.hist.args = <<o, Held(o, key)>>,
                                    !.hist.key = key],
               o, key))

(***************************************************************************)
(* SpecSetAt: set and del called on the observed list with an index.       *)
(***************************************************************************)
SetAt == SetCallOf({ARR}, {0, 1, Ref(FRESH)})

DelAt == DelCallOf({ARR})

NextSetAt ==
  \/ SetAt
  \/ DelAt

SpecSetAt == InitList /\ [][NextSetAt]_vars

\* C11: set(list, i, v) on the observed list with i < length replaces the
\* element at i and leaves the length and the other elements as they were; with
\* i = length it appends v; in both cases the Dep of the list's Observer, and no
\* other Dep, is notified once, also when v is the element the list held at i,
\* and the call returns v.
C11_SetAt ==
  [][ (/\ hist'.op = "set"
       /\ hist'.args[1] = ARR
       /\ ToIndex(hist'.key) <= Len(heap[ARR].elems)) =>
        LET i == ToIndex(hist'.key)
            v == hist'.args[2]
            e == heap[ARR].elems
        IN /\ heap'[ARR].elems = IF i < Len(e) THEN [e EXCEPT ![i + 1] = v]
                                 ELSE Append(e, v)
           /\ hist'.notified = <<ListDep>>
           /\ hist'.ret = <<v>>
    ]_vars

\* set(list, 1, v) where list[1] was v already, in a list of three
C11_Witness ==
  /\ hist.op = "set"
  /\ hist.key = "1"
  /\ hist.args[1] = ARR
  /\ hist.args[2] = hist.args[3]
  /\ Len(heap[ARR].elems) = 3
  /\ hist.notified = <<ListDep>>

(***************************************************************************)
(* SpecSet: set and del called on the observed element of the list, on an  *)
(* object that is not observed, on the root data and on the component      *)
(* instance.                                                               *)
(***************************************************************************)
SetCall == SetCallOf({DATA, ELEM, FRESH, VM}, {0, 1})

DelCall == DelCallOf({DATA, ELEM, FRESH, VM})

NextSet ==
  \/ SetCall
  \/ DelCall

SpecSet == InitList /\ [][NextSet]_vars

\* the call recorded in the history is set(o, key, v) on an object
SetOn(o) ==
  /\ hist'.op = "set"
  /\ hist'.args[1] = o
  /\ heap[o].kind = "object"

\* a plain object with an Observer that is not root data
ObservedNonRoot(o) ==
  /\ heap[o].ob # NoOb
  /\ obs[heap[o].ob].vmCount = 0
  /\ ~heap[o].isVue

\* the state the write o[key] = v leads to from the current state
WriteResult(o, key, v) == SetProp([Cur EXCEPT !.hist.notified = <<>>], o, key, v)

\* C12: set(obj, key, v) on an observed object that is not root data returns v;
\* when key is an own property of obj, the call leaves the objects, the Deps
\* and their subscribers as the write obj[key] = v leaves them and notifies
\* what the write notifies (the Dep of the property when the value differs,
\* nothing otherwise); when it is not, obj has the reactive property key
\* holding v after the call and the Dep of obj's Observer, and no other, has
\* been notified once.
C12_SetObject ==
  [][ \A o \in Objs :
        (SetOn(o) /\ ObservedNonRoot(o)) =>
          LET key == hist'.key
              v == hist'.args[2]
          IN /\ hist'.ret = <<v>>
             /\ IF hasOwn(Cur, o, key)
                THEN /\ heap' = WriteResult(o, key, v).heap
                     /\ subs' = WriteResult(o, key, v).subs
                     /\ uid' = WriteResult(o, key, v).uid
                     /\ hist'.notified = WriteResult(o, key, v).hist.notified
                     /\ hist'.notified =
                          IF v = heap[o].fields[key] THEN <<>>
                          ELSE <<heap[o].dep[key]>>
                ELSE /\ heap'[o].fields[key] = v
                     /\ heap'[o].dep[key] # NoDep
                     /\ hist'.notified = <<obs[heap[o].ob].dep>>
    ]_vars

\* a component instance, or root data (ob.vmCount > 0)
InternalRoot(o) ==
  \/ heap[o].isVue
  \/ heap[o].ob # NoOb /\ obs[heap[o].ob].vmCount > 0

\* C13 as stated: set(target, key, v) with a key target does not have, on an
\* object without Observer, on a component instance or on root data, installs
\* no accessor and notifies no Dep, and target[key] is v after the call.
C13_RejectedButAssigned ==
  [][ \A o \in Objs :
        (/\ SetOn(o)
         /\ ~hasOwn(Cur, o, hist'.key)
         /\ (heap[o].ob = NoOb \/ InternalRoot(o))) =>
          /\ heap'[o].dep[hist'.key] = NoDep
          /\ hist'.notified = <<>>
          /\ heap'[o].fields[hist'.key] = hist'.args[2]
    ]_vars

\* C13, amended: set(target, key, v) with a key target does not have returns
\* v; on a component instance or on root data it issues a diagnostic and
\* changes nothing: target[key] stays undefined; on any other object without
\* Observer it assigns v as a plain property, without diagnostic; in both
\* cases no accessor is installed and no Dep is created or notified.
C13_RejectedOrAssigned ==
  [][ \A o \in Objs :
        (/\ SetOn(o)
         /\ ~hasOwn(Cur, o, hist'.key)
         /\ (heap[o].ob = NoOb \/ InternalRoot(o))) =>
          /\ hist'.ret = <<hist'.args[2]>>
          /\ hist'.notified = <<>>
          /\ uid' = uid /\ subs' = subs /\ obs' = obs
          /\ IF InternalRoot(o)
             THEN hist'.warned /\ heap' = heap
             ELSE /\ ~hist'.warned
                  /\ heap' = [heap EXCEPT ![o].fields[hist'.key] = hist'.args[2]]
    ]_vars

\* set(data, "x", 1) on the root data: a diagnostic, and data.x stays undefined
C13_Witness ==
  /\ hist.op = "set"
  /\ hist.args = <<DATA, 1, Absent>>
  /\ hist.key = "x"
  /\ hist.warned
  /\ hist.ret = <<1>>
  /\ heap[DATA].fields["x"] = Absent

\* C14: del(obj, key) on an object.  On a component instance or on root data
\* the call issues a diagnostic and changes nothing, so that the key remains.
\* Otherwise, when key is not an own property of obj, nothing changes and no
\* Dep is notified; when it is, obj no longer has the property after the call,
\* everything else of the objects is as it was, and the Dep of obj's Observer
\* has been notified once when obj has an Observer, whatever value the
\* property held, and no Dep otherwise.
C14_Del ==
  [][ \A o \in Objs :
        (hist'.op = "del" /\ hist'.args[1] = o /\ heap[o].kind = "object") =>
          LET key == hist'.key
          IN /\ uid' = uid /\ subs' = subs /\ obs' = obs
             /\ IF InternalRoot(o)
                THEN hist'.warned /\ heap' = heap /\ hist'.notified = <<>>
                ELSE IF ~hasOwn(Cur, o, key)
                THEN ~hist'.warned /\ heap' = heap /\ hist'.notified = <<>>
                ELSE /\ ~hist'.warned
                     /\ heap'[o].fields[key] = Absent
                     /\ heap'[o].dep[key] = NoDep
                     /\ \A p \in Objs \ {o} : heap'[p] = heap[p]
                     /\ \A k \in Keys \ {key} :
                          /\ heap'[o].fields[k] = heap[o].fields[k]
                          /\ heap'[o].dep[k] = heap[o].dep[k]
                     /\ hist'.notified =
                          IF heap[o].ob = NoOb THEN <<>>
                          ELSE <<obs[heap[o].ob].dep>>
    ]_vars

\* del(elem, "x") on the observed element of the list, x holding 1
C14_Witness ==
  /\ hist.op = "del"
  /\ hist.args = <<ELEM, 1>>
  /\ hist.key = "x"
  /\ heap[ELEM].fields["x"] = Absent
  /\ hist.notified = <<obs[heap[ELEM].ob].dep>>

(***************************************************************************)
(* SpecProp: writes to the reactive properties of the root data            *)
(* { a: 1, get b () { return 0 }, flag: 1 } and to a shallow reactive      *)
(* property of the component instance, read by a synchronous watcher.      *)
(***************************************************************************)
PropHeap ==
  [o \in Objs |->
     CASE o = DATA -> [NoObject EXCEPT !.fields["a"] = 1, !.fields["b"] = 0,
                                       !.fields["flag"] = 1, !.noSetter["b"] = TRUE]
       [] o = ARR -> [NoObject EXCEPT !.kind = "array", !.elems = <<Ref(ELEM)>>]
       [] o = FROZEN -> [NoObject EXCEPT !.fields["x"] = 0, !.extensible = FALSE]
       [] o = VM -> [NoObject EXCEPT !.isVue = TRUE]
       [] OTHER -> [NoObject EXCEPT !.fields["x"] = 0]]

\* initData: observe(data, true)
InitProp == InitIs(observe(Raw(PropHeap), Ref(DATA), TRUE).S)

NewRender == NewWatcherOf({"render"}, {TRUE})

\* defineReactive(vm, "x", val, null, true)
DefineShallow ==
  \E val \in {0, Ref(ARR)} :
    /\ ~running
    /\ heap[VM].dep["x"] = NoDep
    /\ Assign(defineReactive([Start("define") EXCEPT !.hist.args = <<VM, val>>,
                                                     !.hist.key = "x"],
                             VM, "x", val, TRUE, FALSE, TRUE))

PropVals == {0, 1, NaN, Ref(FRESH), Ref(ARR), Ref(FROZEN)}

\* o[key] = v on a reactive property (history: the object, the value, what the
\* property held)
WritePropOf(Os, Ks, Vs) ==
  \E o \in Os : \E key \in Ks : \E v \in Vs :
    /\ ~running
    /\ heap[o].dep[key] # NoDep
    /\ Assign(SetProp([Start("assign") EXCEPT !.hist.args = <<o, v, Held(o, key)>>,
                                              !.hist.key = key],
                      o, key, v))

WriteProp == WritePropOf({DATA, VM}, {"a", "b", "x"}, PropVals)

NextProp ==
  \/ NewRender
  \/ DefineShallow
  \/ WriteProp
  \/ ToggleObserving

SpecProp == InitProp /\ [][NextProp]_vars

\* the write recorded in the history left the objects, the Observers, the Deps,
\* their subscribers and the watchers as they were, and notified no Dep
NothingChanged ==
  /\ heap' = heap /\ obs' = obs /\ subs' = subs /\ uid' = uid
  /\ ws' = ws /\ queue' = queue
  /\ hist'.notified = <<>>

\* the write o[key] = v stored v, applied observe() to it unless the property
\* is shallow, and notified the Dep of the property once
StoredAndNotified(o, key, v) ==
  /\ heap'[o].fields[key] = v
  /\ heap'[o].dep[key] = heap[o].dep[key]
  /\ IF isObject(v)
     THEN IF heap[o].shallow[key]
          THEN /\ heap'[Obj(v)].ob = heap[Obj(v)].ob
               /\ heap'[o].childOb[key] = NoOb
          ELSE /\ (heap'[Obj(v)].ob # NoOb) <=>
                    \/ heap[Obj(v)].ob # NoOb
                    \/ (shouldObserve /\ heap[Obj(v)].extensible)
               /\ heap'[o].childOb[key] = heap'[Obj(v)].ob
     ELSE heap'[o].childOb[key] = NoOb /\ obs' = obs
  /\ hist'.notified = <<heap[o].dep[key]>>

\* C15 as stated: a write to a reactive property with the value it holds (NaN
\* over NaN too) changes nothing and notifies no Dep; a write with another
\* value stores it, applies observe() to it unless the property is shallow, and
\* notifies the Dep of the property once.
C15_WriteStores ==
  [][ hist'.op = "assign" =>
        IF hist'.args[2] = hist'.args[3] THEN NothingChanged
        ELSE StoredAndNotified(hist'.args[1], hist'.key, hist'.args[2])
    ]_vars

\* C15, amended: as stated, except that a write with another value to a
\* property defined with a getter and no setter changes nothing and notifies
\* no Dep.
C15_Write ==
  [][ hist'.op = "assign" =>
        IF hist'.args[2] = hist'.args[3] THEN NothingChanged
        ELSE IF heap[hist'.args[1]].noSetter[hist'.key] THEN NothingChanged
        ELSE StoredAndNotified(hist'.args[1], hist'.key, hist'.args[2])
    ]_vars

\* data.a = NaN when data.a is NaN and the watcher is subscribed to it
C15_Witness ==
  /\ hist.op = "assign"
  /\ hist.args = <<DATA, NaN, NaN>>
  /\ hist.key = "a"
  /\ hist.notified = <<>>
  /\ "render" \in Range(subs[heap[DATA].dep["a"]])
  /\ heap[DATA].fields["a"] = NaN

(***************************************************************************)
(* SpecRead: reads of data.list = [1, {x: 0}] and of the shallow property  *)
(* vm.x, by a watcher and outside of any watcher, while a nested list      *)
(* [{x: 0}] is pushed into the list or assigned, with the observing switch *)
(* on and off.                                                             *)
(***************************************************************************)
INNER == 4
LEAF == 5

ReadHeap ==
  [o \in Objs |->
     CASE o = DATA -> [NoObject EXCEPT !.fields["list"] = Ref(ARR)]
       [] o = ARR -> [NoObject EXCEPT !.kind = "array", !.elems = <<1, Ref(ELEM)>>]
       [] o = INNER -> [NoObject EXCEPT !.kind = "array", !.elems = <<Ref(LEAF)>>]
       [] o = VM -> [NoObject EXCEPT !.isVue = TRUE]
       [] OTHER -> [NoObject EXCEPT !.fields["x"] = 0]]

\* initData: observe(data, true)
InitRead == InitIs(observe(Raw(ReadHeap), Ref(DATA), TRUE).S)

NewReader == NewWatcherOf({"reader", "attrs"}, {FALSE})

\* data.list.push(inner)
PushInner == ArrayCallOf({"push"}, {<<Ref(INNER)>>}, {})

\* data.list = v, vm.x = v
WriteList == WritePropOf({DATA, VM}, {"list", "x"}, {Ref(ARR), Ref(INNER)})

\* o[key] read by code that runs outside of any watcher
ReadProp ==
  \E o \in {DATA, VM} : \E key \in {"list", "x"} :
    /\ ~running
    /\ heap[o].dep[key] # NoDep
    /\ LET returned(r) == Assign([r.S EXCEPT !.hist.ret = <<r.v>>])
       IN returned(GetProp([Start("get") EXCEPT !.hist.args = <<o>>,
                                                !.hist.key = key],
                           o, key))

NextRead ==
  \/ NewReader
  \/ PushInner
  \/ WriteList
  \/ ReadProp
  \/ DefineShallow
  \/ ToggleObserving
  \/ FlushBegin
  \/ FlushIter
  \/ FlushEnd

SpecRead == InitRead /\ [][NextRead]_vars

\* the Deps of the Observers of the elements of array a, through nested arrays
RECURSIVE ElementDeps(_, _)
ElementDeps(S, a) ==
  UNION {(IF ObOf(S, S.heap[a].elems[i]) # NoOb
          THEN {S.obs[ObOf(S, S.heap[a].elems[i])].dep} ELSE {})
         \cup (IF isArray(S, S.heap[a].elems[i])
               THEN ElementDeps(S, Obj(S.heap[a].elems[i])) ELSE {})
         : i \in 1..Len(S.heap[a].elems)}

\* the Deps the claim names for a read of o[key]: that of the property, that
\* of the Observer of the value, and those of the elements of a list
StatedDeps(S, o, key) ==
  IF S.heap[o].dep[key] = NoDep THEN {}
  ELSE {S.heap[o].dep[key]}
       \cup (IF ObOf(S, S.heap[o].fields[key]) = NoOb THEN {}
             ELSE {S.obs[ObOf(S, S.heap[o].fields[key])].dep}
                  \cup (IF isArray(S, S.heap[o].fields[key])
                        THEN ElementDeps(S, Obj(S.heap[o].fields[key])) ELSE {}))

\* the same, with the Observer the property keeps for its value (none when the
\* property is shallow, or when observe() gave none as the value was stored)
KeptDeps(S, o, key) ==
  IF S.heap[o].dep[key] = NoDep THEN {}
  ELSE {S.heap[o].dep[key]}
       \cup (IF S.heap[o].childOb[key] = NoOb THEN {}
             ELSE {S.obs[S.heap[o].childOb[key]].dep}
                  \cup (IF isArray(S, S.heap[o].fields[key])
                        THEN ElementDeps(S, Obj(S.heap[o].fields[key])) ELSE {}))

\* the Deps whose subscriber list holds w
SubscribedIn(S, w) == {d \in DOMAIN S.subs : w \in Range(S.subs[d])}

\* w has just been evaluated
Evaluated(S, w) == S.hist.op \in {"new", "flushIter"} /\ w \in Range(S.hist.ran)

\* C16 as stated: a read of a reactive property outside of any watcher leaves
\* every subscriber list as it was; after a watcher has evaluated data.list
\* (vm.x) it is subscribed to the Dep of the property and, when the value has
\* an Observer, to the Dep of that Observer and, for a list, to the Dep of the
\* Observer of every element that has one, through nested lists, and to no
\* other Dep.
C16_ReadSubscribesObserved ==
  [][ /\ hist'.op = "get" => subs' = subs
      /\ Evaluated(Cur', "reader") =>
           SubscribedIn(Cur', "reader") = StatedDeps(Cur', DATA, "list")
      /\ Evaluated(Cur', "attrs") =>
           SubscribedIn(Cur', "attrs") = StatedDeps(Cur', VM, "x")
    ]_vars

\* C16, amended: the same, where the watcher is subscribed to the Dep of the
\* value's Observer and of the elements only when the property keeps that
\* Observer: the property is not shallow, and observe() returned the Observer
\* when the property was defined or last written.
C16_ReadSubscribes ==
  [][ /\ hist'.op = "get" => subs' = subs /\ ws' = ws
      /\ Evaluated(Cur', "reader") =>
           SubscribedIn(Cur', "reader") = KeptDeps(Cur', DATA, "list")
      /\ Evaluated(Cur', "attrs") =>
           SubscribedIn(Cur', "attrs") = KeptDeps(Cur', VM, "x")
    ]_vars

\* the reader evaluated data.list holding the list with the nested list in it:
\* subscribed to the Deps of the property, the list, its element, the nested
\* list and the element of the nested list
C16_Witness ==
  /\ Evaluated(Cur, "reader")
  /\ heap[DATA].fields["list"] = Ref(ARR)
  /\ Ref(INNER) \in Range(heap[ARR].elems)
  /\ heap[LEAF].ob # NoOb
  /\ SubscribedIn(Cur, "reader") =
       {heap[DATA].dep["list"], obs[heap[ARR].ob].dep, obs[heap[ELEM].ob].dep,
        obs[heap[INNER].ob].dep, obs[heap[LEAF].ob].dep}

(***************************************************************************)
(* SpecNotify: two synchronous watchers over the root data, render         *)
(* (flag ? a : b) and switch (a, whose callback writes flag = a % 2), so   *)
(* that render is evaluated, and subscribes or unsubscribes, while the     *)
(* notification of a write to a is under way.                              *)
(***************************************************************************)
\* vm.$watch(switch, cb, {sync: true}), and the render watcher made sync
NewSyncWatcher ==
  \E w \in {"switch", "render"} :
    /\ ws[w].id = 0
    /\ Assign(Watcher(Start("new"), w, FALSE, w = "switch", TRUE))

WriteNotify == WriteOf({"a", "flag"})

NextNotify ==
  \/ NewSyncWatcher
  \/ WriteNotify
  \/ SetAsync

SpecNotify == Init /\ [][NextNotify]_vars

\* the watchers whose update() the n-th notify() of the last operation called,
\* in the order of the calls
CallsOf(n) ==
  LET mine == SelectSeq(hist.calls, LAMBDA c : c[1] = n)
  IN [i \in 1..Len(mine) |-> mine[i][2]]

\* C17: every notify() called update() once on each watcher that was in the
\* Dep's subscriber list when the notify() started, and on no other watcher,
\* whatever subscribed or unsubscribed while it ran.
C17_NotifySnapshot ==
  /\ Len(hist.snaps) = Len(hist.notified)
  /\ \A n \in 1..Len(hist.notified) :
       /\ \A w \in Progs : Count(CallsOf(n), w) = Count(hist.snaps[n], w)
       /\ \A w \in Range(hist.snaps[n]) : Count(hist.snaps[n], w) = 1

\* a write to a notified switch and render; the callback of switch cleared the
\* flag, render was evaluated and unsubscribed from a, and the notification
\* still called it; the notification of the flag had called it before
C17_Witness ==
  /\ hist.op = "write"
  /\ Len(hist.notified) = 2
  /\ hist.notified[1] = heap[DATA].dep["a"]
  /\ hist.notified[2] = heap[DATA].dep["flag"]
  /\ "render" \in Range(hist.snaps[1])
  /\ "render" \notin Range(subs[heap[DATA].dep["a"]])
  /\ hist.calls = <<<<1, "switch">>, <<2, "render">>, <<1, "render">>>>
  /\ hist.ran = <<"switch", "render", "render">>

\* C18 (checked under SpecList, where the watcher reads x of an object once for
\* each time the object is in the list, in its first evaluation and in every
\* flush): no subscriber list of a Dep holds the same watcher twice.
C18_UniqueSubscribers ==
  \A d \in DOMAIN subs : \A w \in Progs : Count(subs[d], w) <= 1

\* the watcher re-evaluated in a flush over a list that holds the same object
\* twice
C18_Witness ==
  /\ hist.op = "flushIter"
  /\ hist.ran = <<"lister">>
  /\ Count(heap[ARR].elems, Ref(FRESH)) = 2
  /\ subs[heap[FRESH].dep["x"]] = <<"lister">>

(***************************************************************************)
(* SpecTeardown: as Spec, with the watchers torn down by the function that *)
(* $watch returns and by $destroy, at any time between the steps of the    *)
(* flush.                                                                  *)
(***************************************************************************)
\* unwatchFn(): watcher.teardown() (history: the watchers torn down so far,
\* and whether this one had been torn down before)
Unwatch ==
  \E w \in {"double"} :
    /\ ~running
    /\ ws[w].id # 0
    /\ Assign(teardown([Start("unwatch") EXCEPT
                          !.hist.key = w,
                          !.hist.args = <<IF w \in hist.torn THEN 1 ELSE 0>>,
                          !.hist.torn = @ \cup {w}],
                       w))

\* the watchers of the instance, the last created first
Watchers(S) ==
  Reverse(SortById(S, SelectSeq(<<"render", "double">>, LAMBDA w : S.ws[w].id # 0)))

\* $destroy() that tears down vm._watcher and leaves vm._watchers alone
destroyRenderOnly(S) ==
  LET render(T) == IF T.ws["render"].id # 0 THEN teardown(T, "render") ELSE T
      data(T) == IF T.heap[DATA].ob = NoOb THEN T
                 ELSE [T EXCEPT !.obs[T.heap[DATA].ob].vmCount = @ - 1]
  IN IF S.heap[VM].isBeingDestroyed THEN S
     ELSE data(render([S EXCEPT !.heap[VM].isBeingDestroyed = TRUE]))

\* $destroy(): teardown of vm._watcher and of every watcher of vm._watchers,
\* vm._data.__ob__.vmCount--
destroy(S) ==
  LET RECURSIVE each(_, _)
      each(T, list) ==
        IF Len(list) = 0 THEN T ELSE each(teardown(T, Head(list)), Tail(list))
      render(T) == IF T.ws["render"].id # 0 THEN teardown(T, "render") ELSE T
      data(T) == IF T.heap[DATA].ob = NoOb THEN T
                 ELSE [T EXCEPT !.obs[T.heap[DATA].ob].vmCount = @ - 1]
  IN IF S.heap[VM].isBeingDestroyed THEN S
     ELSE data(each(render([S EXCEPT !.heap[VM].isBeingDestroyed = TRUE]),
                    Watchers(S)))

\* vm.$destroy() (history: the watchers torn down so far, and whether the
\* instance had been destroyed before)
Destroy ==
  /\ ~running
  /\ Assign(destroy([Start("destroy") EXCEPT
                       !.hist.args = <<IF heap[VM].isBeingDestroyed THEN 1 ELSE 0>>,
                       !.hist.torn = IF heap[VM].isBeingDestroyed THEN @
                                     ELSE @ \cup {w \in Progs : ws[w].id # 0}]))

\* data.a = v: both watchers read a
WriteInput == WriteOf({"a"})

NextTeardown ==
  \/ NewWatcher
  \/ WriteInput
  \/ Unwatch
  \/ Destroy
  \/ FlushBegin
  \/ FlushIter
  \/ FlushEnd

SpecTeardown == Init /\ [][NextTeardown]_vars

\* the step left the objects, the Deps, their subscribers, the watchers and
\* the buffer as they were
SameProgram ==
  /\ heap' = heap /\ obs' = obs /\ subs' = subs /\ uid' = uid /\ ws' = ws
  /\ queue' = queue /\ has' = has /\ waiting' = waiting /\ index' = index

\* C19: once teardown() has been called on a watcher, no subscriber list of a
\* Dep holds it; a further teardown() of it (by the function $watch returned,
\* or by $destroy of a destroyed instance) changes nothing; and no later step
\* evaluates the watcher or calls its callback, whatever is written and
\* whether or not it was in the buffer when it was torn down.
C19_TeardownIdempotent ==
  [][ /\ \A w \in hist'.torn : SubscribedIn(Cur', w) = {}
      /\ (hist'.op \in {"unwatch", "destroy"} /\ hist'.args = <<1>>) => SameProgram
      /\ \A w \in hist.torn :
           w \notin Range(hist'.ran) /\ w \notin Range(hist'.cbs)
    ]_vars

\* the function $watch returned is called a second time while the render
\* watcher is still subscribed to a
C19_Witness ==
  /\ hist.op = "unwatch"
  /\ hist.args = <<1>>
  /\ ~ws["double"].active
  /\ subs[heap[DATA].dep["a"]] = <<"render">>

\* C20: when the flush reaches a watcher that was torn down while it was in
\* the buffer, the step evaluates nothing, calls no callback and changes
\* nothing but the position in the buffer; when it reaches any other watcher
\* it evaluates that watcher first; the buffer keeps its entries.
C20_TornDownSkipped ==
  [][ hist'.op = "flushIter" =>
        /\ index' = index + 1
        /\ SubSeq(queue', 1, Len(queue)) = queue
        /\ IF queue[index] \in hist.torn
           THEN /\ hist'.ran = <<>> /\ hist'.cbs = <<>>
                /\ heap' = heap /\ subs' = subs /\ ws' = ws /\ queue' = queue
                /\ hist'.log = hist.log
           ELSE /\ Len(hist'.ran) >= 1 /\ hist'.ran[1] = queue[index]
                /\ hist'.log[Len(hist.log) + 1] = queue[index]
    ]_vars

\* the flush has skipped double, torn down in the buffer, and render is next
C20_Witness ==
  /\ hist.op = "flushIter"
  /\ queue = <<"double", "render">>
  /\ index = 2
  /\ "double" \in hist.torn
  /\ hist.ran = <<>>
  /\ ws["render"].active

(***************************************************************************)
(* SpecLazy: the computed property sum (lazy) and an eager watcher "view"  *)
(* whose evaluation reads vm.sum through the computed getter.              *)
(***************************************************************************)
NewWatcherLazy == NewWatcherOf({"sum", "view"}, {FALSE})

WriteLazy == WriteOf({"a", "b", "flag"})

NextLazy ==
  \/ NewWatcherLazy
  \/ WriteLazy
  \/ ReadComputed
  \/ FlushBegin
  \/ FlushIter
  \/ FlushEnd

SpecLazy == Init /\ [][NextLazy]_vars

\* the watchers update() was called on by the notifications of the last step
Updated == {c[2] : c \in Range(hist.calls)}

\* C21: a notification to the lazy watcher only sets its dirty flag: it is
\* neither evaluated nor queued, and its value and deps are untouched; after
\* an evaluation of the outer watcher that read the computed value, the outer
\* watcher is subscribed to every dep of the lazy watcher (and has each in its
\* own deps); a later write that changes an input of the lazy watcher leaves
\* the outer watcher in the pending buffer.
C21_LazyDirtyOuterSubscribed ==
  [][ /\ "sum" \in Updated' =>
           /\ ws'["sum"].dirty
           /\ "sum" \notin Range(hist'.ran)
           /\ "sum" \notin Range(queue') /\ "sum" \notin has'
           /\ ws'["sum"].value = ws["sum"].value
           /\ ws'["sum"].deps = ws["sum"].deps
      /\ ("view" \in Range(hist'.ran) /\ ws'["sum"].id # 0) =>
           /\ ws'["sum"].deps # {}
           /\ ~ws'["sum"].dirty
           /\ ws'["view"].value = ws'["sum"].value
           /\ \A d \in ws'["sum"].deps :
                "view" \in Range(subs'[d]) /\ d \in ws'["view"].deps
      /\ \A k \in {"a", "b"} :
           ( /\ hist'.op = "write"
             /\ heap'[DATA].fields[k] # heap[DATA].fields[k]
             /\ heap[DATA].dep[k] \in ws["sum"].deps
             /\ ws["view"].value # Absent ) =>
               /\ "view" \in Range(queue') /\ "view" \in has'
               /\ waiting'
    ]_vars

\* the outer watcher was re-evaluated by a flush and read the recomputed sum
C21_Witness ==
  /\ hist.op = "flushIter"
  /\ hist.ran = <<"view", "sum">>
  /\ ws["view"].value = heap[DATA].fields["a"] + heap[DATA].fields["b"]
  /\ ws["sum"].deps = {heap[DATA].dep["a"], heap[DATA].dep["b"]}
  /\ \A d \in ws["sum"].deps : "view" \in Range(subs[d])

\* the top of a target stack, none when it is empty
TopOf(st) == IF Len(st) = 0 THEN NoW ELSE st[Len(st)]

\* the trace of a step replayed against the stack st of running evaluations:
\* an evaluation enters on top of st, every depend() happens under the
\* innermost running evaluation, an evaluation that ends is the innermost one
\* and leaves the enclosing one active; at the end no evaluation is running
RECURSIVE WellNested(_, _, _)
WellNested(tr, i, st) ==
  IF i > Len(tr) THEN st = <<>>
  ELSE LET e == tr[i]
           front == SubSeq(st, 1, Len(st) - 1)
       IN /\ e.target = TopOf(e.stack)
          /\ CASE e.ev = "enter" ->
                    /\ e.stack = Append(st, e.w)
                    /\ e.target = e.w
                    /\ WellNested(tr, i + 1, Append(st, e.w))
               [] e.ev = "leave" ->
                    /\ st # <<>> /\ TopOf(st) = e.w
                    /\ e.stack = front
                    /\ e.target = TopOf(front)
                    /\ WellNested(tr, i + 1, front)
               [] e.ev = "depend" ->
                    /\ st # <<>> /\ e.stack = st
                    /\ e.w = TopOf(st)
                    /\ WellNested(tr, i + 1, st)

\* the deps on which depend() ran while w was the active evaluator
AttributedTo(w) ==
  {hist.trace[i].d : i \in {j \in 1..Len(hist.trace) :
                             hist.trace[j].ev = "depend" /\ hist.trace[j].w = w}}

\* C22: the active evaluator is always the top of the target stack, and the
\* stack holds exactly the watchers whose evaluation function is running, the
\* innermost last: when a nested evaluation ends the enclosing watcher is the
\* active one again, and none is active (the stack is empty) once the outermost
\* ended; every depend() of an evaluation is recorded for the innermost
\* running watcher, so that a watcher evaluated once in a step holds exactly
\* the deps touched while it was the innermost one.
C22_ActiveIsStackTop ==
  /\ target = TopOf(targetStack)
  /\ targetStack = <<>>
  /\ WellNested(hist.trace, 1, <<>>)
  /\ \A w \in Progs :
       (Count(hist.ran, w) = 1 /\ ws[w].active) => ws[w].deps = AttributedTo(w)

\* the evaluation of "view" entered that of "sum"; when it ended "view" was
\* active again and its read of data.flag was recorded for it
C22_Witness ==
  \E i, j \in 1..Len(hist.trace) :
    /\ i < j
    /\ hist.trace[i].ev = "leave" /\ hist.trace[i].w = "sum"
    /\ hist.trace[i].target = "view" /\ hist.trace[i].stack = <<"view">>
    /\ hist.trace[j].ev = "depend" /\ hist.trace[j].w = "view"
    /\ hist.trace[j].d = heap[DATA].dep["flag"]
    /\ heap[DATA].dep["flag"] \notin ws["sum"].deps
    /\ heap[DATA].dep["flag"] \in ws["view"].deps

(***************************************************************************)
(* SpecErr: a user watcher whose function or callback throws, next to the  *)
(* render watcher, in every environment: with and without a console, with  *)
(* and without config.errorHandler, config.async on and off.               *)
(***************************************************************************)
ErrorHandlers == {"none", "returns", "throws", "rethrows"}

InitErr ==
  \E b \in BOOLEAN : \E h \in ErrorHandlers : \E s \in BOOLEAN :
    InitIs([observe(Raw(CoreHeap), Ref(DATA), TRUE).S EXCEPT
              !.inBrowser = b, !.errorHandler = h, !.async = s])

NewWatcherErr == NewWatcherOf({"faulty", "render"}, {FALSE})

WriteErr == WriteOf({"a", "flag"})

NextErr ==
  \/ NewWatcherErr
  \/ WriteErr
  \/ FlushBegin
  \/ FlushIter
  \/ FlushEnd

SpecErr == InitErr /\ [][NextErr]_vars

\* C23: no error leaves notify(): after a write, whatever the functions and
\* callbacks of the subscribers did, every watcher of every notify() snapshot
\* of the write received its update() call and no exception reached the writer.
C23_NotifyContainsErrors ==
  hist.op = "write" =>
    /\ thrown = NoErr
    /\ \A n \in 1..Len(hist.notified) :
         \A w \in Range(hist.snaps[n]) : Count(CallsOf(n), w) = 1

\* C24: when the function of a watcher throws in a flush iteration, the error
\* goes to the error channel first, the watcher keeps its value, no exception
\* leaves the iteration and the flush goes on to the next entry; a flush that
\* ends has evaluated every entry of the buffer.
C24_EvaluatorFaultContained ==
  [][ /\ ( /\ hist'.op = "flushIter"
           /\ "faulty" \in Range(hist'.ran)
           /\ heap[DATA].fields["flag"] = 1 ) =>
             /\ hist'.errs # <<>>
             /\ hist'.errs[1].err = "evaluator"
             /\ ws'["faulty"].value = ws["faulty"].value
             /\ thrown' = NoErr
             /\ running' /\ index' = index + 1
      /\ (flushing /\ ~flushing') => Range(queue) \subseteq Range(hist.log)
    ]_vars

\* no flush callback is on the stack and none is scheduled
NoFlushPending == ~running /\ ~(waiting /\ ~flushing)

\* C25: when the flush callback ends, the buffer and the dedup set are empty
\* and the flags are cleared; with config.async on, a write that notifies a
\* queued-mode watcher while no flush is scheduled or running schedules
\* exactly one flush,
\* and an operation or flush step that runs while a flush is scheduled or
\* running schedules none.
C25_OneFlushCycle ==
  [][ /\ (running /\ ~running') =>
           /\ queue' = <<>> /\ has' = {}
           /\ ~flushing' /\ ~waiting'
      /\ ( /\ async /\ NoFlushPending /\ hist'.op = "write"
           /\ \E c \in Range(hist'.calls) :
                ~ws[c[2]].lazy /\ ~ws[c[2]].sync ) =>
           /\ hist'.sched = 1
           /\ waiting' /\ ~flushing'
      /\ (async /\ ~NoFlushPending) => hist'.sched = 0
    ]_vars

\* C26: a flush drains the buffer: when the flush callback ends, it has gone
\* through the whole buffer and every entry, whether queued before the flush
\* or while it ran, has been evaluated in this flush or was skipped because it
\* had been torn down; after it the buffer is empty, so nothing is deferred to
\* a later flush.
C26_FlushDrains ==
  [][ (running /\ ~running') =>
        /\ index > Len(queue)
        /\ \A i \in 1..Len(queue) :
             queue[i] \in Range(hist.log) \/ ~ws[queue[i]].active
        /\ queue' = <<>>
    ]_vars

(***************************************************************************)
(* Props and injections (instance/state.js initProps, instance/inject.js   *)
(* initInjections, instance/lifecycle.js updateChildComponent,             *)
(* util/props.js validateProp).  vm._props is the object PROPS; the object *)
(* a default factory returns is DEFAULT.  A prop has no type and is not    *)
(* required; its default is absent, a factory, or a factory that throws,   *)
(* and its validator is absent, passes, or throws.                         *)
(***************************************************************************)
PROPS == 4
DEFAULT == 5

\* isRoot = !vm.$parent
isRoot(S) == Len(S.errorCaptured) = 0

\* getPropDefaultValue: undefined without default, else def.call(vm)
getPropDefaultValue(S, prop) ==
  CASE prop.default = "none" -> [S |-> S, v |-> Absent]
    [] prop.default = "factory" -> [S |-> S, v |-> Ref(DEFAULT)]
    [] prop.default = "throws" ->
         [S |-> [S EXCEPT !.thrown = "factory"], v |-> Absent]

\* assertProp: nothing for an undefined value of a prop that is not required;
\* else the validator is called
assertProp(S, prop, value) ==
  IF value = Absent THEN S
  ELSE IF prop.validator = "throws" THEN [S EXCEPT !.thrown = "validator"]
  ELSE S

\* validateProp, after getPropDefaultValue: the default is observed with the
\* switch on, and the switch is set back to what it was
observeDefault(r) ==
  IF r.S.thrown # NoErr THEN r
  ELSE [S |-> toggleObserving(observe(toggleObserving(r.S, TRUE), r.v, FALSE).S,
                              r.S.shouldObserve),
        v |-> r.v]

\* validateProp(key, propOptions, propsData, vm): value is propsData[key]
validateProp(S, prop, value) ==
  LET asserted(r) ==
        [S |-> IF r.S.thrown # NoErr THEN r.S ELSE assertProp(r.S, prop, r.v),
         v |-> r.v]
  IN IF value # Absent THEN asserted([S |-> S, v |-> value])
     ELSE asserted(observeDefault(getPropDefaultValue(S, prop)))

RECURSIVE initPropsLoop(_, _, _), updateLoop(_, _, _)
\* initProps: defineReactive(props, key, value, customSetter)
definedProp(r, propsData, i) ==
  IF r.S.thrown # NoErr THEN r.S
  ELSE initPropsLoop(defineReactive(r.S, PROPS, PropKeys[i], r.v, TRUE, TRUE, FALSE),
                     propsData, i + 1)

\* initProps: for (const key in propsOptions), from the i-th key on
initPropsLoop(S, propsData, i) ==
  IF i > Len(PropKeys) THEN S
  ELSE definedProp(validateProp(S, S.propsOptions[PropKeys[i]],
                                propsData[PropKeys[i]]),
                   propsData, i)

\* the statement after the loop, which an exception skips
toggledOn(S1) == IF S1.thrown # NoErr THEN S1 ELSE toggleObserving(S1, TRUE)

initProps(S, propsData) ==
  toggledOn(initPropsLoop(IF ~isRoot(S) THEN toggleObserving(S, FALSE) ELSE S,
                          propsData, 1))

\* updateChildComponent: the loop after props[key] = ...
assignedNext(S1, propsData, i) ==
  IF S1.thrown # NoErr THEN S1 ELSE updateLoop(S1, propsData, i + 1)

\* updateChildComponent: props[key] = validateProp(...)
assignedProp(r, propsData, i) ==
  IF r.S.thrown # NoErr THEN r.S
  ELSE assignedNext(SetProp(r.S, PROPS, PropKeys[i], r.v), propsData, i)

updateLoop(S, propsData, i) ==
  IF i > Len(PropKeys) THEN S
  ELSE assignedProp(validateProp(S, S.propsOptions[PropKeys[i]],
                                 propsData[PropKeys[i]]),
                    propsData, i)

\* updateChildComponent, the update of the props
updateChildComponent(S, propsData) ==
  toggledOn(updateLoop(toggleObserving(S, FALSE), propsData, 1))

\* initInjections with result = { x: v }
initInjections(S, v) ==
  toggleObserving(defineReactive(toggleObserving(S, FALSE), VM, "x", v,
                                 TRUE, TRUE, FALSE),
                  TRUE)

(***************************************************************************)
(* SpecInit: a component instance with two props and one injection, root   *)
(* or child, and a watcher that reads the injected property.               *)
(***************************************************************************)
\* the options of the two props: p is plain, has a default factory and a
\* validator, or a validator that throws; x is plain or has a default factory
\* that throws
PropOptionSets ==
  {[k \in PropKeySet |-> IF k = "p" THEN op ELSE ox] :
     op \in {[default |-> "none", validator |-> "none"],
             [default |-> "factory", validator |-> "passes"],
             [default |-> "none", validator |-> "throws"]},
     ox \in {[default |-> "none", validator |-> "none"],
             [default |-> "throws", validator |-> "none"]}}

InitHeap ==
  [o \in Objs |->
     CASE o = DATA -> [NoObject EXCEPT !.fields["a"] = 1]
       [] o = VM -> [NoObject EXCEPT !.isVue = TRUE]
       [] o = PROPS -> NoObject
       [] OTHER -> [NoObject EXCEPT !.fields["a"] = 0]]

InitInit ==
  \E opts \in PropOptionSets : \E root \in BOOLEAN :
    InitIs([observe(Raw(InitHeap), Ref(DATA), TRUE).S EXCEPT
              !.propsOptions = opts,
              !.errorCaptured = IF root THEN <<>> ELSE << <<>> >>])

PropsData == [PropKeySet -> {Absent, 1}]

\* initInjections(vm)
InitInjections ==
  \E v \in {1, Ref(ELEM)} :
    /\ ~running
    /\ heap[VM].dep["x"] = NoDep
    /\ Assign(initInjections([Start("initInjections") EXCEPT !.hist.args = <<v>>], v))

\* initProps(vm, propsOptions)
InitProps ==
  \E propsData \in PropsData :
    /\ ~running
    /\ heap[PROPS].dep["p"] = NoDep
    /\ Assign(initProps(Start("initProps"), propsData))

\* updateChildComponent(vm, propsData, ...) of a child whose props are set up
UpdateChildComponent ==
  \E propsData \in PropsData :
    /\ ~running
    /\ ~isRoot(Cur)
    /\ heap[PROPS].dep["x"] # NoDep
    /\ Assign(updateChildComponent(Start("updateChildComponent"), propsData))

\* vm.x = v, vm.p = v (proxied to vm._props.p)
WriteInit ==
  \/ WritePropOf({VM}, {"x"}, {1, 2, NaN})
  \/ WritePropOf({PROPS}, {"p"}, {1, 2})

NewWatcherInit == NewWatcherOf({"attrs"}, {FALSE})

NextInit ==
  \/ InitInjections
  \/ InitProps
  \/ UpdateChildComponent
  \/ WriteInit
  \/ NewWatcherInit
  \/ FlushBegin
  \/ FlushIter
  \/ FlushEnd

SpecInit == InitInit /\ [][NextInit]_vars

\* C27: when initProps, initInjections or updateChildComponent has finished,
\* however it finished, the observing switch is on.
C27_SwitchRestored ==
  hist.op \in {"initProps", "initInjections", "updateChildComponent"} =>
    shouldObserve

\* the last step was the write o[key] = v from user code on a property
\* installed with a customSetter
CustomWrite(o, key) ==
  /\ hist'.op = "assign"
  /\ hist'.args[1] = o /\ hist'.key = key
  /\ heap[o].customSetter[key]

MaxAncestors == 2
MaxHooks == 2

HookKinds == {"pass", "capture", "throws"}

HookLists == UNION {[1..n -> HookKinds] : n \in 0..MaxHooks}

Chains == UNION {[1..n -> HookLists] : n \in 0..MaxAncestors}

InitCapture ==
  \E c \in Chains : \E b \in BOOLEAN : \E h \in ErrorHandlers :
    InitIs([observe(Raw(CoreHeap), Ref(DATA), TRUE).S EXCEPT
              !.errorCaptured = c, !.inBrowser = b, !.errorHandler = h])

\* handleError(err, vm, info), as called by a watcher or a lifecycle hook of vm
HandleError ==
  \E err \in {"evaluator", "callback"} :
    /\ hist.op = "init"
    /\ Assign(handleError([Start("handleError") EXCEPT !.hist.args = <<err>>], err))

NextCapture == HandleError

SpecCapture == InitCapture /\ [][NextCapture]_vars

\* the hooks of the ancestors from the nearest parent to the root, each
\* ancestor's in the order of its list: <<ancestor, index, kind>>
RECURSIVE FlatHooks(_, _)
FlatHooks(chain, a) ==
  IF a > Len(chain) THEN <<>>
  ELSE [i \in 1..Len(chain[a]) |-> <<a, i, chain[a][i]>>] \o FlatHooks(chain, a + 1)

\* the hook calls of the last operation, in order
HookCalls == SelectSeq(hist.errs, LAMBDA e : e.what = "hook")

\* how often globalHandleError received e: config.errorHandler was called
\* with it or, when none is set, it was logged or rethrown
GlobalReceived(e) ==
  Cardinality({j \in 1..Len(hist.errs) :
                 /\ hist.errs[j].err = e
                 /\ hist.errs[j].what =
                      (IF errorHandler = "none"
                       THEN (IF inBrowser THEN "log" ELSE "throw")
                       ELSE "handler")})

\* C29: handleError(err) calls the hooks of the ancestors in order, nearest
\* parent first, each with err; it stops at the first hook that returns false
\* and then the global handler does not receive err; every error thrown by a
\* hook is received by the global handler and the next hook is still called;
\* when no hook returns false all hooks are called and the global handler
\* receives err exactly once.
C29_CaptureChain ==
  hist.op = "handleError" =>
    LET flat == FlatHooks(errorCaptured, 1)
        captures == {j \in 1..Len(flat) : flat[j][3] = "capture"}
        last == IF captures = {} THEN Len(flat)
                ELSE CHOOSE j \in captures : \A m \in captures : j <= m
        err == hist.args[1]
    IN /\ Len(HookCalls) = last
       /\ \A j \in 1..Len(HookCalls) :
            /\ HookCalls[j].at = flat[j][1] /\ HookCalls[j].i = flat[j][2]
            /\ HookCalls[j].err = err
       /\ GlobalReceived(err) = IF captures = {} THEN 1 ELSE 0
       /\ GlobalReceived("hook") =
            Cardinality({j \in 1..last : flat[j][3] = "throws"})

(***************************************************************************)
(* Vue.use (global-api/use.js).  The plugins: "router" is an object whose  *)
(* install calls Vue.use(store); "store" is a function; "needy" is an      *)
(* object whose install throws when it gets no options; "bare" is an       *)
(* object without install; "both" is a function with an install function.  *)
(***************************************************************************)
Plugins == {"router", "store", "needy", "bare", "both"}

\* typeof plugin.install === 'function'
hasInstall(plugin) == plugin \in {"router", "needy", "both"}

\* typeof plugin === 'function'
isFunction(plugin) == plugin \in {"store", "both"}

\* history: fn is called with `this` and the arguments
Invoked(S, plugin, fn, this, args) ==
  [S EXCEPT !.hist.installs =
              Append(@, [plugin |-> plugin, fn |-> fn, this |-> this, args |-> args])]

RECURSIVE use(_, _, _)
\* plugin.install.apply(plugin, args)
install(S, plugin, args) ==
  CASE plugin = "router" -> use(Invoked(S, plugin, "install", plugin, args), "store", <<>>).S
    [] plugin = "needy" ->
         IF Len(args) < 2
         THEN [Invoked(S, plugin, "install", plugin, args) EXCEPT !.thrown = "install"]
         ELSE Invoked(S, plugin, "install", plugin, args)
    [] OTHER -> Invoked(S, plugin, "install", plugin, args)

\* installedPlugins.push(plugin); return this: skipped by an exception
pushed(S1, plugin) ==
  IF S1.thrown # NoErr THEN [S |-> S1, v |-> Absent]
  ELSE [S |-> [S1 EXCEPT !.installedPlugins = Append(@, plugin)], v |-> "Vue"]

usePushAlways(S, plugin, rest) ==
  LET args == <<"Vue">> \o rest
      called == [S EXCEPT !.hist.used = @ \cup {plugin}]
  IN pushed(IF hasInstall(plugin) THEN install(called, plugin, args)
            ELSE IF isFunction(plugin)
            THEN Invoked(called, plugin, "plugin", "null", args)
            ELSE called,
            plugin)

\* Vue.use(plugin, ...rest)
use(S, plugin, rest) ==
  LET args == <<"Vue">> \o rest
      called == [S EXCEPT !.hist.used = @ \cup {plugin}]
  IN IF plugin \in Range(S.installedPlugins) THEN [S |-> called, v |-> "Vue"]
     ELSE pushed(IF hasInstall(plugin) THEN install(called, plugin, args)
                 ELSE IF isFunction(plugin)
                 THEN Invoked(called, plugin, "plugin", "null", args)
                 ELSE called,
                 plugin)

(***************************************************************************)
(* SpecUse: any sequence of Vue.use calls.                                 *)
(***************************************************************************)
\* Vue.use(plugin) / Vue.use(plugin, 1)
Use ==
  \E plugin \in Plugins : \E rest \in {<<>>, <<1>>} :
    LET returned(r) == Assign([r.S EXCEPT !.hist.ret = <<r.v>>])
    IN returned(use([Start("use") EXCEPT !.hist.method = plugin,
                                         !.hist.args = rest],
                    plugin, rest))

NextUse == Use

SpecUse == Init /\ [][NextUse]_vars

\* the invocations of the install function, or of the function, of plugin in
\* the operation with history h
InvocationsOf(h, plugin) ==
  SelectSeq(h.installs, LAMBDA c : c.plugin = plugin)

HandlerLists == {<<>>, <<"reads", "throws">>}

\* the options of the child
ChildOptions ==
  {[NoOptions EXCEPT !.data = d, !.hooks["beforeCreate"] = b,
                     !.hooks["created"] = c] :
     d \in {"reads", "throws"}, b \in {<<>>, <<"throws">>},
     c \in HandlerLists}

InitHook ==
  \E o \in ChildOptions : \E b \in BOOLEAN :
    InitIs([observe(Raw(CoreHeap), Ref(DATA), TRUE).S EXCEPT
              !.vms[CHILD].options = o, !.inBrowser = b])

NewWatcherHook == NewWatcherOf({"mounting"}, {FALSE})

\* data.a = v, data.flag = v (while the target stack is no deeper than
\* MaxStack)
WriteHook == Len(targetStack) < MaxStack /\ WriteOf({"a", "flag"})

NextHook ==
  \/ NewWatcherHook
  \/ WriteHook
  \/ FlushBegin
  \/ FlushIter
  \/ FlushEnd

SpecHook == InitHook /\ [][NextHook]_vars

\* C32: callHook, getData and handleError return or raise with Dep.target and
\* the target stack as they found them, what their handlers read subscribes
\* nobody, and what the enclosing evaluation reads after them subscribes it.
C32_StackRestored ==
  /\ \A i \in 1..Len(hist.frames) :
       /\ hist.frames[i].target = hist.frames[i].target0
       /\ hist.frames[i].stack = hist.frames[i].stack0
  /\ "mounting" \notin Range(subs[heap[DATA].dep["b"]])
  /\ (/\ \E i \in 1..Len(hist.frames) : hist.frames[i].fn = "callHook"
      /\ \A i \in 1..Len(hist.frames) : ~hist.frames[i].raised)
       => "mounting" \in Range(subs[heap[DATA].dep["a"]])

(***************************************************************************)
(* SpecLife: instances are created (new Vue(options)), mounted and         *)
(* destroyed, and user code calls Vue.set / Vue.delete on the data         *)
(* containers.                                                             *)
(***************************************************************************)
\* data: { a: 1, b: 0, flag: 1, list: [1] }, a frozen object
LifeHeap ==
  [o \in Objs |->
     CASE o = DATA -> [CoreHeap[DATA] EXCEPT !.fields["list"] = Ref(ARR)]
       [] o = ARR -> [NoObject EXCEPT !.kind = "array", !.elems = <<1>>]
       [] o = FROZEN -> [NoObject EXCEPT !.extensible = FALSE]
       [] OTHER -> CoreHeap[o]]

InitLife == \E b \in BOOLEAN : InitIs([Raw(LifeHeap) EXCEPT !.inBrowser = b])

\* the options an instance is created with: the data option and the
\* handlers of beforeDestroy and destroyed
LifeOptions ==
  {[NoOptions EXCEPT !.data = o[1], !.hooks["beforeDestroy"] = o[2],
                     !.hooks["destroyed"] = o[3]] :
     o \in {<<"object", <<>>, <<>>>>,
            <<"object", <<"returns">>, <<"destroys">>>>,
            <<"object", <<"destroys">>, <<"returns">>>>,
            <<"fresh", <<"throws">>, <<"returns">>>>,
            <<"array", <<>>, <<>>>>,
            <<"undefined", <<>>, <<>>>>}}

\* new Vue(options), the second instance possibly as a child of the first
Create ==
  \E vm \in Vms : \E o \in LifeOptions : \E parent \in {0, ROOT} :
    /\ ~vms[vm].created
    /\ parent # 0 => vm # ROOT /\ vms[ROOT].created /\ ~vms[ROOT].isBeingDestroyed
    /\ Assign(init([Start("create") EXCEPT !.hist.args = <<vm>>,
                                           !.vms[vm].options = o,
                                           !.vms[vm].parent = parent], vm))

\* mountComponent: new Watcher(vm, updateComponent, noop, ..., true)
mountComponent(S, vm) ==
  Watcher([S EXCEPT !.vms[vm].watcher = "render"], "render", FALSE, FALSE, FALSE)

\* vm.$mount() of the first instance, whose render function reads the data
Mount ==
  /\ vms[ROOT].created /\ ~vms[ROOT].isBeingDestroyed
  /\ vms[ROOT].options.data = "object"
  /\ ws["render"].id = 0
  /\ Assign(mountComponent([Start("mount") EXCEPT !.hist.args = <<ROOT>>], ROOT))

\* vm.$destroy() from user code (while the target stack is no deeper than
\* MaxStack)
DestroyVm ==
  \E vm \in Vms :
    /\ vms[vm].created
    /\ Len(targetStack) < MaxStack
    /\ Assign(vm_destroy([Start("destroy") EXCEPT !.hist.args = <<vm>>], vm, 1))

\* the data containers
Containers == {DATA, ARR}

\* Vue.set(container, 'x', 1) for a key the container does not have
SetRoot ==
  \E o \in Containers :
    /\ ~In(Cur, o, "x")
    /\ Assign(set([Start("set") EXCEPT !.hist.args = <<o>>, !.hist.key = "x"],
                  o, "x", 1).S)

\* Vue.delete(container, key) for a key the container has
DelRoot ==
  \E o \in Containers : \E key \in {"a"} :
    /\ hasOwn(Cur, o, key)
    /\ Assign(del([Start("del") EXCEPT !.hist.args = <<o>>, !.hist.key = key],
                  o, key))

NextLife ==
  \/ Create
  \/ Mount
  \/ DestroyVm
  \/ SetRoot
  \/ DelRoot

SpecLife == InitLife /\ [][NextLife]_vars

\* the instances, not yet destroyed, whose root data is container o
RootUsers(o) ==
  {vm \in Vms : vms[vm].created /\ ~vms[vm].isDestroyed /\ vms[vm].data = Ref(o)}

\* C33 (state): the root count of every observed container is the number of
\* instances, not yet destroyed, that have it as their root data
C33_CountIsUsers ==
  \A i \in 1..Len(obs) : obs[i].vmCount = Cardinality(RootUsers(obs[i].value))

\* C33: the root count of every observed container is never negative and is
\* the number of live instances rooted at it, and set / del refuse to add or
\* delete a key of a container exactly while that number is positive.
C33_RootCount ==
  [][ /\ C33_CountIsUsers'
      /\ hist'.op \in {"set", "del"} =>
           (hist'.warned <=> RootUsers(hist'.args[1]) # {})
    ]_vars

\* C34: after any $destroy call on an instance, also one made from its own
\* beforeDestroy or destroyed hook, every beforeDestroy and destroyed handler
\* has run exactly once, its watcher was torn down once, the root count of its
\* data was decremented once, and the call returned.
C34_DestroyOnce ==
  [][ hist'.op = "destroy" =>
        LET v == hist'.args[1]
            vm == vms'[v]
        IN /\ thrown' = NoErr
           /\ vm.fired["beforeDestroy"] = Len(vm.options.hooks["beforeDestroy"])
           /\ vm.fired["destroyed"] = Len(vm.options.hooks["destroyed"])
           /\ IF vms[v].isBeingDestroyed THEN vm = vms[v]
              ELSE /\ vm.torn = IF vm.watcher # NoW THEN 1 ELSE 0
                   /\ vm.decremented = IF ObOf(Cur, vm.data) # NoOb THEN 1 ELSE 0
    ]_vars

(***************************************************************************)
(* Activation of kept-alive instances (lifecycle.js): isInInactiveTree,    *)
(* activateChildComponent, deactivateChildComponent.  vm._inactive is      *)
(* "null", "false" or "true".                                              *)
(***************************************************************************)
RECURSIVE isInInactiveTree(_, _)
isInInactiveTree(S, vm) ==
  LET parent == S.vms[vm].parent
  IN IF parent = 0 THEN FALSE
     ELSE IF S.vms[parent].inactive = "true" THEN TRUE
     ELSE isInInactiveTree(S, parent)

\* callHook(vm, hook) after the loop over vm.$children
hookAfterChildren(S1, vm, hook) ==
  IF S1.thrown # NoErr THEN S1 ELSE callHook(S1, vm, hook, 1)

RECURSIVE activateChildComponent(_, _, _), activateChildren(_, _, _)
\* for (i = 0; i < vm.$children.length; i++) activateChildComponent(vm.$children[i])
activateChildren(S, vm, i) ==
  IF S.thrown # NoErr \/ i > Len(S.vms[vm].children) THEN S
  ELSE activateChildren(activateChildComponent(S, S.vms[vm].children[i], FALSE),
                        vm, i + 1)

\* the body shared by both branches: if (vm._inactive || vm._inactive === null)
activateIgnoringDirect(S, vm) ==
  IF S.vms[vm].inactive \in {"true", "null"}
  THEN hookAfterChildren(
         activateChildren([S EXCEPT !.vms[vm].inactive = "false"], vm, 1),
         vm, "activated")
  ELSE S

activateChildComponent(S, vm, direct) ==
  IF direct
  THEN IF isInInactiveTree(S, vm)
       THEN [S EXCEPT !.vms[vm].directInactive = FALSE]
       ELSE activateIgnoringDirect([S EXCEPT !.vms[vm].directInactive = FALSE], vm)
  ELSE IF S.vms[vm].directInactive THEN S
       ELSE activateIgnoringDirect(S, vm)

RECURSIVE deactivateChildComponent(_, _, _), deactivateChildren(_, _, _)
deactivateChildren(S, vm, i) ==
  IF S.thrown # NoErr \/ i > Len(S.vms[vm].children) THEN S
  ELSE deactivateChildren(deactivateChildComponent(S, S.vms[vm].children[i], FALSE),
                          vm, i + 1)

\* if (!vm._inactive) { ... }
deactivateBody(S, vm) ==
  IF S.vms[vm].inactive \in {"false", "null"}
  THEN hookAfterChildren(
         deactivateChildren([S EXCEPT !.vms[vm].inactive = "true"], vm, 1),
         vm, "deactivated")
  ELSE S

deactivateChildComponent(S, vm, direct) ==
  IF direct
  THEN IF isInInactiveTree(S, vm)
       THEN [S EXCEPT !.vms[vm].directInactive = TRUE]
       ELSE deactivateBody([S EXCEPT !.vms[vm].directInactive = TRUE], vm)
  ELSE deactivateBody(S, vm)

(***************************************************************************)
(* Activation: instances are created, the second one possibly as a child   *)
(* of the first, and a keep-alive activates and deactivates them directly. *)
(***************************************************************************)
\* the handlers of the activated and the deactivated hook of an instance
ActOptions ==
  {[NoOptions EXCEPT !.hooks["activated"] = <<k>>,
                     !.hooks["deactivated"] = <<"returns">>] :
     k \in {"returns", "throws"}}

InitAct == \E b \in BOOLEAN : InitIs([Raw(LifeHeap) EXCEPT !.inBrowser = b])

\* new Vue(options) with parent vm - 1 or none
CreateAct ==
  \E vm \in Vms : \E o \in ActOptions : \E parent \in {0, vm - 1} :
    /\ ~vms[vm].created
    /\ parent # 0 => vms[parent].created
    /\ Assign(init([Start("create") EXCEPT !.hist.args = <<vm>>,
                                           !.vms[vm].options = o,
                                           !.vms[vm].parent = parent], vm))

\* activateChildComponent(vm, true), from the insert hook of a kept-alive
\* component vnode
Activate ==
  \E vm \in Vms :
    /\ vms[vm].created
    /\ Len(targetStack) < MaxStack
    /\ Assign(activateChildComponent(
                [Start("activate") EXCEPT !.hist.args = <<vm>>], vm, TRUE))

\* deactivateChildComponent(vm, true), from the destroy hook of a kept-alive
\* component vnode
Deactivate ==
  \E vm \in Vms :
    /\ vms[vm].created
    /\ Len(targetStack) < MaxStack
    /\ Assign(deactivateChildComponent(
                [Start("deactivate") EXCEPT !.hist.args = <<vm>>], vm, TRUE))

NextAct ==
  \/ CreateAct
  \/ Activate
  \/ Deactivate

SpecAct == InitAct /\ [][NextAct]_vars

\* the activated / deactivated hooks of vm fired in the step, in order
RECURSIVE HooksOf(_, _)
HooksOf(s, vm) ==
  IF s = <<>> THEN <<>>
  ELSE IF Head(s)[1] = vm /\ Head(s)[2] \in {"activated", "deactivated"}
       THEN <<Head(s)[2]>> \o HooksOf(Tail(s), vm)
       ELSE HooksOf(Tail(s), vm)

Alternating(s) == \A i \in 1..(Len(s) - 1) : s[i] # s[i + 1]

\* the hook fired last before the step, if any
LastOf(vm) == IF vms[vm].last = "none" THEN <<>> ELSE <<vms[vm].last>>

RECURSIVE Ancestors(_, _)
Ancestors(vs, vm) ==
  IF vs[vm].parent = 0 THEN {}
  ELSE {vs[vm].parent} \cup Ancestors(vs, vs[vm].parent)

\* C35: in every step the activated and deactivated hooks of each instance
\* alternate with each other and with the hook it fired last before the
\* step; and when an instance is activated, a descendant that was directly
\* deactivated fires no activated hook and does not become active.
C35_HooksAlternate ==
  [][ \A vm \in Vms :
        /\ Alternating(LastOf(vm) \o HooksOf(hist'.hooks, vm))
        /\ ( /\ hist'.op = "activate"
             /\ vms[vm].directInactive
             /\ hist'.args[1] \in Ancestors(vms, vm) )
           => /\ <<vm, "activated">> \notin Range(hist'.hooks)
              /\ vms'[vm].inactive # "false"
              /\ vms'[vm].directInactive
    ]_vars

(***************************************************************************)
(* keep-alive (components/keep-alive.js): matches, pruneCache,             *)
(* pruneCacheEntry, destroyed, the include / exclude watchers, render.     *)
(* A vnode key is a number or a string; as a property name of the cache    *)
(* object a number is its decimal string.                                  *)
(***************************************************************************)
NumKey(n) == [t |-> "num", n |-> n, s |-> ""]

StrKey(s) == [t |-> "str", n |-> 0, s |-> s]

\* String(n)
numberToString(n) == CASE n = 0 -> "0" [] n = 1 -> "1" [] n = 2 -> "2" [] OTHER -> "3"

\* the property name cache[key] reads and writes
PropName(key) == IF key.t = "num" THEN numberToString(key.n) ELSE key.s

\* this.max && ...
Truthy(x) == (x.t = "num" /\ x.n # 0) \/ (x.t = "str" /\ x.s # "")

\* parseInt(this.max) of a number or of a decimal string
parseInt(x) ==
  IF x.t = "num" THEN x.n
  ELSE CASE x.s = "1" -> 1 [] x.s = "2" -> 2 [] x.s = "3" -> 3 [] OTHER -> 0

\* the components rendered inside the keep-alive
Comps == {"a", "b"}

\* componentOptions.Ctor.cid + '::' + componentOptions.tag
cidTag(comp) == IF comp = "a" THEN "1::a" ELSE "2::b"

getComponentName(vnode) == vnode.comp

matches(pattern, name) == pattern.t = "array" /\ name \in pattern.names

\* a cache entry that is a vnode (neither undefined nor null)
isEntry(e) == e.comp \notin {"undefined", "null"}

\* for (const key in cache): integer-like names in ascending order, then
\* the other names in the order they were added
forIn(K) ==
  SelectSeq(<<"1", "2">>, LAMBDA n : n \in Range(K.order))
    \o SelectSeq(K.order, LAMBDA n : n \notin {"1", "2"})

\* componentInstance.$destroy() of a cached child
destroyInstance(S, i) == [S EXCEPT !.ka.insts[i].destroyed = TRUE]

\* lines 283-287: the condition, then $destroy
entryDestroyed(S, cached, current) ==
  IF isEntry(cached) /\ (current = NoVnode \/ cached.comp # current.comp)
  THEN IF cached.componentInstance = 0
       THEN [S EXCEPT !.thrown = "TypeError"]
       ELSE destroyInstance(S, cached.componentInstance)
  ELSE S

\* cache[key] = null; remove(keys, key)
entryRemoved(S1, key, cached) ==
  IF S1.thrown # NoErr THEN S1
  ELSE [S1 EXCEPT !.ka.cache[PropName(key)] = NullEntry,
                  !.ka.order = IF PropName(key) \in Range(@) THEN @
                               ELSE Append(@, PropName(key)),
                  !.ka.keys = remove(@, key),
                  !.ka.dropped = IF isEntry(cached) /\ cached.componentInstance # 0
                                 THEN @ \cup {cached.componentInstance} ELSE @]

pruneCacheEntry(S, key, current) ==
  entryRemoved(entryDestroyed(S, S.ka.cache[PropName(key)], current), key,
               S.ka.cache[PropName(key)])

\* the loop of pruneCache over the names; filter(name) is
\* matches(val, name) for include and !matches(val, name) for exclude
RECURSIVE pruneCache(_, _, _, _, _)
pruneCache(S, names, i, val, negate) ==
  IF S.thrown # NoErr \/ i > Len(names) THEN S
  ELSE pruneCache(
         IF /\ isEntry(S.ka.cache[names[i]])
            /\ matches(val, getComponentName(S.ka.cache[names[i]])) = negate
         THEN pruneCacheEntry(S, StrKey(names[i]), S.ka.vnode)
         ELSE S,
         names, i + 1, val, negate)

\* destroyed (): for (const key in this.cache) pruneCacheEntry(cache, key, keys)
RECURSIVE destroyedLoop(_, _, _)
destroyedLoop(S, names, i) ==
  IF S.thrown # NoErr \/ i > Len(names) THEN S
  ELSE destroyedLoop(pruneCacheEntry(S, StrKey(names[i]), NoVnode), names, i + 1)

\* vnode.key == null ? cid + '::' + tag : vnode.key
cacheKey(vnode) == IF vnode.key = NoKey THEN StrKey(cidTag(vnode.comp)) ELSE vnode.key

\* lines 338-345: not included, or excluded
notCached(K, name) ==
  \/ K.include.t # "undefined" /\ ~matches(K.include, name)
  \/ K.exclude.t # "undefined" /\ matches(K.exclude, name)

\* lines 356-362: cache hit
renderHit(S, vnode, key) ==
  [S EXCEPT !.ka.keys = Append(remove(@, key), key),
            !.ka.recent = Append(remove(@, PropName(key)), PropName(key)),
            !.ka.hit = S.ka.cache[PropName(key)].componentInstance,
            !.ka.rendered =
               [vnode EXCEPT !.componentInstance =
                               S.ka.cache[PropName(key)].componentInstance,
                             !.keepAlive = TRUE]]

\* lines 370-372: prune oldest entry
pruneOldest(S) ==
  IF Truthy(S.ka.max) /\ Len(S.ka.keys) > parseInt(S.ka.max)
  THEN pruneCacheEntry([S EXCEPT !.ka.evicted = Append(@, S.ka.keys[1])],
                       S.ka.keys[1], S.ka.vnode)
  ELSE S

\* line 375, on the vnode object that is also the cache entry
keptAlive(S1, vnode, key) ==
  IF S1.thrown # NoErr THEN S1
  ELSE [S1 EXCEPT !.ka.rendered = [vnode EXCEPT !.keepAlive = TRUE],
                  !.ka.cache[PropName(key)] =
                     IF isEntry(@) THEN [vnode EXCEPT !.keepAlive = TRUE] ELSE @]

\* lines 363-373: cache miss
renderMiss(S, vnode, key) ==
  keptAlive(
    pruneOldest([S EXCEPT !.ka.cache[PropName(key)] = vnode,
                          !.ka.order = IF PropName(key) \in Range(@) THEN @
                                       ELSE Append(@, PropName(key)),
                          !.ka.keys = Append(@, key),
                          !.ka.recent = Append(remove(@, PropName(key)),
                                               PropName(key)),
                          !.ka.stored = PropName(key)]),
    vnode, key)

\* render () for the slot's first component child `vnode`
render(S, vnode) ==
  IF notCached(S.ka, getComponentName(vnode))
  THEN [S EXCEPT !.ka.rendered = vnode]
  ELSE IF isEntry(S.ka.cache[PropName(cacheKey(vnode))])
       THEN renderHit(S, vnode, cacheKey(vnode))
       ELSE renderMiss(S, vnode, cacheKey(vnode))

(***************************************************************************)
(* vm._update(vnode): vm._vnode = vnode, then the patch of the previous    *)
(* vnode: a vnode with the same component and key takes over the previous  *)
(* instance, any other vnode without a live kept-alive instance gets a new *)
(* one, and the replaced vnode's instance is destroyed unless its          *)
(* data.keepAlive is set.                                                  *)
(***************************************************************************)
sameVnode(a, b) == a.comp = b.comp /\ a.key = b.key

\* the instance the patch gives the vnode; Len(insts) + 1 is a new one
patchedInstance(S, prev, vnode) ==
  IF prev # NoVnode /\ sameVnode(prev, vnode) THEN prev.componentInstance
  ELSE IF /\ vnode.componentInstance # 0
          /\ ~S.ka.insts[vnode.componentInstance].destroyed
          /\ vnode.keepAlive
       THEN vnode.componentInstance
       ELSE Len(S.ka.insts) + 1

\* the destroy hook of the replaced component vnode
replaced(S, prev, i) ==
  IF prev = NoVnode \/ prev.componentInstance = i \/ prev.keepAlive THEN S
  ELSE destroyInstance(S, prev.componentInstance)

patched(S, prev, vnode, i) ==
  replaced(
    [S EXCEPT !.ka.insts = IF i > Len(@)
                           THEN Append(@, [comp |-> vnode.comp, destroyed |-> FALSE])
                           ELSE @,
              !.ka.vnode = [vnode EXCEPT !.componentInstance = i],
              !.ka.cache = IF S.ka.stored # "" /\ isEntry(@[S.ka.stored])
                           THEN [@ EXCEPT ![S.ka.stored].componentInstance = i]
                           ELSE @],
    prev, i)

\* vm._update(vm._render())
vm_update(S1) ==
  IF S1.thrown # NoErr THEN S1
  ELSE patched(S1, S1.ka.vnode, S1.ka.rendered,
               patchedInstance(S1, S1.ka.vnode, S1.ka.rendered))

(***************************************************************************)
(* Keep-alive: the slot content changes and keep-alive renders again, the  *)
(* parent changes include or exclude, keep-alive is destroyed.             *)
(***************************************************************************)
MaxInst == 3

MaxKeys == 3

\* the slot content: component a without key, with key 1, with key '1',
\* component b without key
SlotVnodes ==
  {[NoVnode EXCEPT !.comp = v[1], !.key = v[2]] :
     v \in {<<"a", NoKey>>, <<"a", NumKey(1)>>, <<"a", StrKey("1")>>,
            <<"b", NoKey>>}}

\* the slot content rendered last, as a new vnode
SameSlot(K) == [NoVnode EXCEPT !.comp = K.vnode.comp, !.key = K.vnode.key]

\* the values of the max prop
MaxValues == {NoKey, NumKey(1), StrKey("2")}

Patterns == {NoPattern, [t |-> "array", names |-> {"a"}]}

InitKA ==
  \E m \in MaxValues : InitIs([Raw(CoreHeap) EXCEPT !.ka.max = m])

\* an operation of the keep-alive instance starts
StartKA(op) ==
  [Start(op) EXCEPT !.ka.rendered = NoVnode, !.ka.stored = "",
                    !.ka.dropped = {}, !.ka.evicted = <<>>, !.ka.hit = 0]

\* the render watcher of keep-alive runs: vm._update(vm._render())
RenderOf(vnodes) ==
  \E vnode \in vnodes :
    /\ ~ka.destroyed
    /\ Len(ka.insts) < MaxInst /\ Len(ka.keys) < MaxKeys
    /\ Assign(vm_update(render(StartKA("render"), vnode)))

RenderKA == RenderOf(SlotVnodes)

\* the watcher callback of include or exclude, after the render
watched(S1, val, negate) ==
  IF S1.thrown # NoErr THEN S1
  ELSE pruneCache(S1, forIn(S1.ka), 1, val, negate)

\* the parent changes the include prop: keep-alive renders again, then the
\* watcher of 'include' prunes the cache
SetInclude ==
  \E val \in Patterns : \E vnode \in {SameSlot(ka)} :
    /\ ~ka.destroyed /\ ka.vnode # NoVnode
    /\ Len(ka.insts) < MaxInst /\ Len(ka.keys) < MaxKeys
    /\ val # ka.include
    /\ Assign(watched(vm_update(render([StartKA("include") EXCEPT !.ka.include = val],
                                    vnode)),
                      val, FALSE))

\* the parent changes the exclude prop
SetExclude ==
  \E val \in {NoPattern, [t |-> "array", names |-> {"b"}]} :
    \E vnode \in {SameSlot(ka)} :
      /\ ~ka.destroyed /\ ka.vnode # NoVnode
      /\ Len(ka.insts) < MaxInst /\ Len(ka.keys) < MaxKeys
      /\ val # ka.exclude
      /\ Assign(watched(vm_update(render([StartKA("exclude") EXCEPT !.ka.exclude = val],
                                      vnode)),
                        val, TRUE))

\* keep-alive.$destroy(): the patch to null runs the destroy hook of the
\* rendered vnode, then the destroyed hook prunes every entry
DestroyKA ==
  /\ ~ka.destroyed /\ ka.vnode # NoVnode
  /\ Assign(destroyedLoop(
              replaced([StartKA("destroyed") EXCEPT !.ka.destroyed = TRUE],
                       ka.vnode, 0),
              forIn(ka), 1))

NextKA ==
  \/ RenderKA
  \/ SetInclude
  \/ SetExclude
  \/ DestroyKA

SpecKA == InitKA /\ [][NextKA]_vars

\* the names of the cache entries that hold a vnode
Cached(K) == {n \in CacheNames : isEntry(K.cache[n])}

\* the instances of the cached vnodes
CachedInstances(K) == {K.cache[n].componentInstance : n \in Cached(K)} \ {0}

\* C36: the keys list has no duplicates, and the keys in it are exactly the
\* keys whose cache entry is a vnode.
C36_KeysInStep ==
  /\ \A i, j \in 1..Len(ka.keys) : i # j => ka.keys[i] # ka.keys[j]
  /\ {PropName(ka.keys[i]) : i \in 1..Len(ka.keys)} = Cached(ka)

\* C37: every instance that is not destroyed is still held by keep-alive,
\* in its cache or as the instance of the vnode it renders, so that no
\* instance is dropped while alive without ever being destroyed.
C37_NoOrphan ==
  \A i \in 1..Len(ka.insts) :
    ~ka.insts[i].destroyed =>
      \/ i \in CachedInstances(ka)
      \/ ~ka.destroyed /\ ka.vnode.componentInstance = i

\* position of name n in the order of last renders (0: never rendered)
Recency(K, n) ==
  IF n \in Range(K.recent)
  THEN CHOOSE i \in 1..Len(K.recent) : K.recent[i] = n
  ELSE 0

\* the entry with the oldest last render among the cached ones
IsOldest(K, n) ==
  n \in Cached(K) /\ \A o \in Cached(K) : Recency(K, n) <= Recency(K, o)

\* the render of the step looked its key up in the cache and found it
WasHit == /\ ~notCached(ka, getComponentName(ka'.rendered))
          /\ isEntry(ka.cache[PropName(cacheKey(ka'.rendered))])

WasMiss == /\ ~notCached(ka, getComponentName(ka'.rendered))
           /\ ~isEntry(ka.cache[PropName(cacheKey(ka'.rendered))])

\* C31: with max m >= 1, after a render the cache holds at most m vnodes;
\* a miss that makes the count exceed m evicts exactly the cached entry
\* rendered least recently; a hit makes its key the last of keys and the
\* rendered vnode gets the instance of the cached one.
C31_LruBound ==
  [][ (hist'.op = "render" /\ Truthy(ka.max) /\ parseInt(ka.max) >= 1) =>
        /\ Cardinality(Cached(ka')) <= parseInt(ka.max)
        /\ (WasMiss /\ Cardinality(Cached(ka)) + 1 > parseInt(ka.max)) =>
              /\ Len(ka'.evicted) = 1
              /\ IsOldest(ka, PropName(ka'.evicted[1]))
              /\ Cached(ka') = (Cached(ka) \ {PropName(ka'.evicted[1])})
                                 \cup {PropName(cacheKey(ka'.rendered))}
        /\ WasHit =>
              /\ ka'.keys # <<>>
              /\ ka'.keys[Len(ka'.keys)] = cacheKey(ka'.rendered)
              /\ ka'.vnode.componentInstance =
                   ka.cache[PropName(cacheKey(ka'.rendered))].componentInstance
    ]_vars

(***************************************************************************)
(* Async components (vdom/helpers/resolve-async-component.js):             *)
(* resolveAsyncComponent with its closures forceRender, resolve, reject    *)
(* and the two timer callbacks.                                            *)
(***************************************************************************)
\* owners[i].$forceUpdate() for every owner (history: the instance and
\* whether it was destroyed), then the cleanup when renderCompleted
RECURSIVE forceUpdates(_, _)
forceUpdates(F, i) ==
  IF i > Len(F.owners) THEN F
  ELSE forceUpdates(
         [F EXCEPT !.forced = Append(@, [vm |-> F.owners[i],
                                         destroyed |-> F.owners[i] \in F.destroyed])],
         i + 1)

forceRender(F, renderCompleted) ==
  IF renderCompleted
  THEN [forceUpdates(F, 1) EXCEPT !.owners = <<>>, !.timerLoading = "null",
                                  !.timerTimeout = "null"]
  ELSE forceUpdates(F, 1)

\* the function wrapped by once(...) at line 136
resolveBody(F) ==
  IF ~F.sync
  THEN forceRender([F EXCEPT !.resolved = TRUE, !.resolves = @ + 1], TRUE)
  ELSE [F EXCEPT !.resolved = TRUE, !.resolves = @ + 1, !.owners = <<>>]

\* once(fn): fn runs on the first call only
resolve(F) ==
  IF F.resolveCalled THEN F ELSE resolveBody([F EXCEPT !.resolveCalled = TRUE])

\* the function wrapped by once(...) at line 150
rejectBody(F) ==
  IF F.errorComp
  THEN forceRender([F EXCEPT !.error = TRUE, !.rejects = @ + 1], TRUE)
  ELSE [F EXCEPT !.rejects = @ + 1]

reject(F) ==
  IF F.rejectCalled THEN F ELSE rejectBody([F EXCEPT !.rejectCalled = TRUE])

\* const res = factory(resolve, reject)
factoryCall(F) ==
  IF F.resolvesSync THEN resolve([F EXCEPT !.invoked = @ + 1])
  ELSE [F EXCEPT !.invoked = @ + 1]

\* lines 200-210: the timeout timer is set
timeoutSet(F) ==
  IF F.returns.timeout THEN [F EXCEPT !.timerTimeout = "armed"] ELSE F

\* lines 181-197: loadingComp, and loading at once or after the delay
loadingSet(F) ==
  IF ~F.returns.loading THEN F
  ELSE IF F.returns.delay = 0
       THEN [F EXCEPT !.loadingComp = TRUE, !.loading = TRUE]
       ELSE [F EXCEPT !.loadingComp = TRUE, !.timerLoading = "armed"]

\* lines 166-213: what is done with the value the factory returned
returned(F) ==
  CASE F.returns.t = "promise" ->
         IF ~F.resolved THEN [F EXCEPT !.promise = "pending"] ELSE F
    [] F.returns.t = "object" ->
         timeoutSet(loadingSet(
           [F EXCEPT !.promise = "pending",
                     !.errorComp = IF F.returns.error THEN TRUE ELSE @]))
    [] OTHER -> F

\* lines 215-219
firstReturn(F) ==
  [F EXCEPT !.sync = FALSE,
            !.ret = IF F.loading THEN "loadingComp"
                    ELSE IF F.resolved THEN "resolved" ELSE "undefined"]

\* lines 106-220: the first call with a rendering instance
firstCall(F, owner) ==
  firstReturn(returned(factoryCall(
    [F EXCEPT !.ownersDef = TRUE, !.owners = <<owner>>, !.sync = TRUE,
              !.hooked = @ \cup {owner}])))

\* lines 96-100: already pending
ownerPushed(F, owner) ==
  IF owner # 0 /\ F.ownersDef /\ owner \notin Range(F.owners)
  THEN [F EXCEPT !.owners = Append(@, owner)]
  ELSE F

\* lines 102-220, after the owner was pushed
afterPush(F, owner) ==
  IF F.loading /\ F.loadingComp THEN [F EXCEPT !.ret = "loadingComp"]
  ELSE IF owner # 0 /\ ~F.ownersDef THEN firstCall(F, owner)
  ELSE [F EXCEPT !.ret = "undefined"]

\* resolveAsyncComponent(factory, baseCtor) with currentRenderingInstance
\* = owner (0: null)
resolveAsyncComponent(F, owner) ==
  IF F.error /\ F.errorComp THEN [F EXCEPT !.ret = "errorComp"]
  ELSE IF F.resolved THEN [F EXCEPT !.ret = "resolved"]
  ELSE afterPush(ownerPushed(F, owner), owner)

\* the callback of timerLoading
timerLoadingFired(F) ==
  IF ~F.resolved /\ ~F.error
  THEN forceRender([F EXCEPT !.timerLoading = "null", !.loading = TRUE], FALSE)
  ELSE [F EXCEPT !.timerLoading = "null"]

\* the callback of timerTimeout
timerTimeoutIgnoringResolved(F) == reject([F EXCEPT !.timerTimeout = "null"])

timerTimeoutFired(F) ==
  IF ~F.resolved THEN reject([F EXCEPT !.timerTimeout = "null"])
  ELSE [F EXCEPT !.timerTimeout = "null"]

\* the 'hook:destroyed' listener of the first owner: remove(owners, owner)
ownerDestroyed(F, vm) ==
  [F EXCEPT !.destroyed = @ \cup {vm},
            !.owners = IF vm \in F.hooked THEN remove(@, vm) ELSE @]

(***************************************************************************)
(* Async component: instances render it, the promise settles, the factory  *)
(* code calls resolve or reject, timers fire, instances are destroyed.     *)
(***************************************************************************)
\* the factories: async1 (callbacks, resolving later or at once), async2
\* (a promise), async3 (an object), also one that resolves at once
Factories ==
  {[NoFactory EXCEPT !.resolvesSync = f[1], !.returns = f[2]] :
     f \in {<<FALSE, NoReturn>>,
            <<TRUE, NoReturn>>,
            <<FALSE, [NoReturn EXCEPT !.t = "promise"]>>,
            <<FALSE, [NoReturn EXCEPT !.t = "object", !.error = TRUE,
                                      !.loading = TRUE, !.timeout = TRUE]>>,
            <<FALSE, [NoReturn EXCEPT !.t = "object", !.loading = TRUE,
                                      !.delay = 0, !.timeout = TRUE]>>,
            <<TRUE, [NoReturn EXCEPT !.t = "object", !.error = TRUE,
                                     !.loading = TRUE, !.timeout = TRUE]>>}}

InitAsync == \E f \in Factories : InitIs([Raw(CoreHeap) EXCEPT !.fa = f])

StartAsync(op) == [Start(op) EXCEPT !.fa.forced = <<>>, !.fa.ret = "undefined"]

\* a render of instance owner, or a call outside any render, reaches the
\* async component
Resolve ==
  \E owner \in Owners \cup {0} :
    /\ owner \notin fa.destroyed
    /\ Assign([StartAsync("resolveAsyncComponent") EXCEPT
                 !.hist.args = <<owner>>,
                 !.fa = resolveAsyncComponent(fa, owner)])

\* the promise is fulfilled or rejected: then(resolve, reject)
Settle ==
  \E ok \in BOOLEAN :
    /\ fa.promise = "pending"
    /\ Assign([StartAsync("settle") EXCEPT
                 !.fa = IF ok THEN resolve([fa EXCEPT !.promise = "fulfilled"])
                        ELSE reject([fa EXCEPT !.promise = "rejected"])])

\* the factory code calls the resolve or reject it was given, any number
\* of times
Callback ==
  \E ok \in BOOLEAN :
    /\ fa.invoked > 0 /\ fa.returns.t = "undefined"
    /\ Assign([StartAsync("callback") EXCEPT
                 !.fa = IF ok THEN resolve(fa) ELSE reject(fa)])

TimerLoading ==
  /\ fa.timerLoading = "armed"
  /\ Assign([StartAsync("timerLoading") EXCEPT !.fa = timerLoadingFired(fa)])

TimerTimeout ==
  /\ fa.timerTimeout = "armed"
  /\ Assign([StartAsync("timerTimeout") EXCEPT !.fa = timerTimeoutFired(fa)])

\* vm.$destroy() of a rendering instance
DestroyOwner ==
  \E vm \in Owners :
    /\ vm \notin fa.destroyed
    /\ Assign([StartAsync("destroyOwner") EXCEPT !.hist.args = <<vm>>,
                                                 !.fa = ownerDestroyed(fa, vm)])

NextAsync ==
  \/ Resolve
  \/ Settle
  \/ Callback
  \/ TimerLoading
  \/ TimerTimeout
  \/ DestroyOwner

SpecAsync == InitAsync /\ [][NextAsync]_vars

\* the fields of the factory function object
FactoryState(F) ==
  <<F.error, F.errorComp, F.resolved, F.loading, F.loadingComp, F.ownersDef,
    F.owners>>

\* C38: the factory function is invoked at most once, the bodies of resolve
\* and of reject run at most once each, and a timer that fires after the
\* component was resolved leaves the factory's fields as they are and
\* calls no $forceUpdate.
C38_OnceAndQuiet ==
  [][ /\ fa'.invoked <= 1 /\ fa'.resolves <= 1 /\ fa'.rejects <= 1
      /\ (hist'.op \in {"timerLoading", "timerTimeout"} /\ fa.resolved) =>
            /\ FactoryState(fa') = FactoryState(fa)
            /\ fa'.forced = <<>>
    ]_vars

\* the timeout timer fires after the factory resolved the component before
\* it returned
C38_Witness ==
  /\ hist.op = "timerTimeout" /\ fa.resolved /\ fa.resolves = 1
  /\ fa.invoked = 1 /\ fa.rejectCalled = FALSE

\* C39: owners holds no instance twice and no destroyed instance, and no
\* $forceUpdate is called on a destroyed instance.
C39_OwnersAlive ==
  /\ \A i, j \in 1..Len(fa.owners) : i # j => fa.owners[i] # fa.owners[j]
  /\ \A i \in 1..Len(fa.owners) : fa.owners[i] \notin fa.destroyed
  /\ \A i \in 1..Len(fa.forced) : ~fa.forced[i].destroyed

(***************************************************************************)
(* Transitions (platforms/web/runtime/modules/transition.js): enter and    *)
(* leave with their once-callbacks, nextFrame callbacks and timers.        *)
(***************************************************************************)
\* hook && hook(el): a transition hook of the user runs, and may throw
Hook(E, h) ==
  IF E.thrown THEN E
  ELSE [E EXCEPT !.out = Append(@, h), !.thrown = (E.throws = h)]

\* rm()
rm(E) == IF E.thrown THEN E ELSE [E EXCEPT !.out = Append(@, "rm")]

\* el._enterCb = null, the last statement of the callback
enterCleared(E) == IF E.thrown THEN E ELSE [E EXCEPT !.enterCb = "null"]

\* the function given to once at line 268
enterBody(E) ==
  IF E.enter.cancelled
  THEN enterCleared(Hook([E EXCEPT !.enter.runs = @ + 1,
                                   !.enter.outcomes = Append(@, "enterCancelled")],
                         "enterCancelled"))
  ELSE enterCleared(Hook([E EXCEPT !.enter.runs = @ + 1,
                                   !.enter.outcomes = Append(@, "afterEnter")],
                         "afterEnter"))

\* the once-wrapped enter callback is called
enterCbCall(E) ==
  IF E.thrown \/ E.enter.called THEN E
  ELSE enterBody([E EXCEPT !.enter.called = TRUE])

leaveCleared(E) == IF E.thrown THEN E ELSE [E EXCEPT !.leaveCb = "null"]

\* the function given to once at line 386
leaveBody(E) ==
  IF E.leave.cancelled
  THEN leaveCleared(Hook([E EXCEPT !.leave.runs = @ + 1,
                                   !.leave.outcomes = Append(@, "leaveCancelled")],
                         "leaveCancelled"))
  ELSE leaveCleared(Hook(rm([E EXCEPT !.leave.runs = @ + 1,
                                      !.leave.outcomes = Append(@, "afterLeave")]),
                         "afterLeave"))

leaveCbCall(E) ==
  IF E.thrown \/ E.leave.called THEN E
  ELSE leaveBody([E EXCEPT !.leave.called = TRUE])

\* lines 155-158: call leave callback now
leaveCancelledNow(E) ==
  IF E.leaveCb = "set" THEN leaveCbCall([E EXCEPT !.leave.cancelled = TRUE])
  ELSE E

\* lines 344-347: call enter callback now
enterCancelledNow(E) ==
  IF E.enterCb = "set" THEN enterCbCall([E EXCEPT !.enter.cancelled = TRUE])
  ELSE E

\* if (!expectsCSS && !userWantsControl) cb()
enterSync(E) == IF ~E.css /\ ~E.control THEN enterCbCall(E) ELSE E

leaveSync(E) == IF ~E.css /\ ~E.control THEN leaveCbCall(E) ELSE E

\* lines 268-333 of enter: the callback is made, beforeEnter, the classes
\* and the nextFrame callback, the enter hook, the synchronous end
enterStarted(E) ==
  enterSync(Hook(Hook(
    [E EXCEPT !.enterCb = "set", !.enter = [NoCb EXCEPT !.exists = TRUE],
              !.frames = IF E.css THEN @ \cup {"enter"} ELSE @ \ {"enter"},
              !.timers = @ \ {"enter"}],
    "beforeEnter"), "enter"))

\* enter after the pending leave was cancelled
enterRest(E, data) ==
  IF E.thrown \/ ~data \/ E.enterCb = "set" THEN E ELSE enterStarted(E)

\* enter(vnode), vnode.data.transition given or not
enter(E, data) == enterRest(leaveCancelledNow(E), data)

\* performLeave
performLeave(E) ==
  IF E.leave.cancelled THEN E
  ELSE leaveSync(Hook(Hook(
         [E EXCEPT !.frames = IF E.css THEN @ \cup {"leave"} ELSE @], "beforeLeave"),
         "leave"))

\* lines 386-410 of leave: the callback is made, performLeave now or later
leaveStarted(E) ==
  IF E.delayLeave
  THEN [E EXCEPT !.leaveCb = "set", !.leave = [NoCb EXCEPT !.exists = TRUE],
                 !.frames = @ \ {"leave"}, !.timers = @ \ {"leave"},
                 !.delayed = TRUE]
  ELSE performLeave(
         [E EXCEPT !.leaveCb = "set", !.leave = [NoCb EXCEPT !.exists = TRUE],
                   !.frames = @ \ {"leave"}, !.timers = @ \ {"leave"}])

leaveRest(E, data) ==
  IF E.thrown THEN E
  ELSE IF ~data THEN rm(E)
  ELSE IF E.leaveCb = "set" THEN E
  ELSE leaveStarted(E)

\* leave(vnode, rm)
leave(E, data) == leaveRest(enterCancelledNow(E), data)

\* the nextFrame callback of enter or leave: unless cancelled, the end of
\* the transition is awaited (setTimeout or whenTransitionEnds)
nextFrame(E, kind) ==
  IF E[kind].cancelled \/ E.control THEN [E EXCEPT !.frames = @ \ {kind}]
  ELSE [E EXCEPT !.frames = @ \ {kind}, !.timers = @ \cup {kind}]

(***************************************************************************)
(* Transition: enter and leave are called in any order, frames and timers  *)
(* fire, the user's hooks call `done`.                                     *)
(***************************************************************************)
\* the transition data: css, userWantsControl, delayLeave, v-show, and the
\* hook that throws
Transitions ==
  {[NoEl EXCEPT !.css = d[1], !.control = d[2], !.delayLeave = d[3],
                !.show = d[4], !.throws = d[5]] :
     d \in {<<TRUE, FALSE, FALSE, FALSE, "none">>,
            <<TRUE, TRUE, TRUE, FALSE, "none">>,
            <<FALSE, FALSE, FALSE, TRUE, "none">>,
            <<FALSE, TRUE, FALSE, TRUE, "none">>,
            <<TRUE, FALSE, FALSE, FALSE, "afterLeave">>,
            <<TRUE, TRUE, FALSE, FALSE, "enterCancelled">>}}

InitEl == \E e \in Transitions : InitIs([Raw(CoreHeap) EXCEPT !.el = e])

StartEl(op) == [Start(op) EXCEPT !.el.out = <<>>, !.el.thrown = FALSE]

Enter ==
  \E data \in BOOLEAN :
    Assign([StartEl("enter") EXCEPT
              !.el = enter([el EXCEPT !.out = <<>>, !.thrown = FALSE], data)])

Leave ==
  \E data \in BOOLEAN :
    Assign([StartEl("leave") EXCEPT
              !.el = leave([el EXCEPT !.out = <<>>, !.thrown = FALSE], data)])

\* delayLeave calls performLeave
PerformLeave ==
  /\ el.delayed
  /\ Assign([StartEl("performLeave") EXCEPT
               !.el = performLeave([el EXCEPT !.out = <<>>, !.thrown = FALSE,
                                              !.delayed = FALSE])])

NextFrame ==
  \E kind \in {"enter", "leave"} :
    /\ kind \in el.frames
    /\ Assign([StartEl("nextFrame") EXCEPT
                 !.el = nextFrame([el EXCEPT !.out = <<>>, !.thrown = FALSE], kind)])

\* the end of the transition (timer, transitionend) or a hook's `done`
\* calls the callback, any number of times
Done ==
  \E kind \in {"enter", "leave"} :
    /\ el[kind].exists
    /\ kind \in el.timers \/ (el.control /\ (kind = "leave" => ~el.delayed))
    /\ Assign([StartEl("done") EXCEPT
                 !.hist.key = kind,
                 !.el = IF kind = "enter"
                        THEN enterCbCall([el EXCEPT !.out = <<>>, !.thrown = FALSE])
                        ELSE leaveCbCall([el EXCEPT !.out = <<>>, !.thrown = FALSE])])

NextEl ==
  \/ Enter
  \/ Leave
  \/ PerformLeave
  \/ NextFrame
  \/ Done

SpecEl == InitEl /\ [][NextEl]_vars

\* C40: el._enterCb and el._leaveCb are never both pending; each callback
\* runs at most once with one outcome; an enter that finds a leave pending
\* runs leaveCancelled and no rm and leaves no leave pending, and a leave
\* that finds an enter pending runs enterCancelled and leaves no enter
\* pending.
C40_Exclusive ==
  [][ /\ ~(el'.enterCb = "set" /\ el'.leaveCb = "set")
      /\ el'.enter.runs <= 1 /\ Len(el'.enter.outcomes) = el'.enter.runs
      /\ el'.leave.runs <= 1 /\ Len(el'.leave.outcomes) = el'.leave.runs
      /\ (hist'.op = "enter" /\ el.leaveCb = "set") =>
            /\ "leaveCancelled" \in Range(el'.out)
            /\ "rm" \notin Range(el'.out)
            /\ el'.leaveCb # "set"
      /\ (hist'.op = "leave" /\ el.enterCb = "set") =>
            /\ "enterCancelled" \in Range(el'.out)
            /\ el'.enterCb # "set"
    ]_vars

====
